---- MODULE Spec2Model ----
(***************************************************************************)
(* A model of the CES agent-package validator: the document parsers, the   *)
(* package model builder (buildPackageModel), the instruction parser       *)
(* (parseInstructionFile) and the rule engine (runRules).                  *)
(*                                                                         *)
(* The package on disk is the variable fs, a tree of directories and       *)
(* files.  A validation pass (validatePackageRoot) builds the model from   *)
(* fs and runs the rules on it; the rules read fs again where the code     *)
(* calls the file system.                                                  *)
(*                                                                         *)
(* Strings are TLA+ strings; the string functions of the code (trim,       *)
(* includes, endsWith, split, toLowerCase, localeCompare, the regular      *)
(* expressions) are computed character by character.  JSON.parse and the   *)
(* YAML library are external: a file carries both its text lines and the   *)
(* outcome the library gives for that text.                                *)
(***************************************************************************)
EXTENDS Integers, Sequences, FiniteSets, TLC

VARIABLES
  fs,          \* the package directory on disk
  model,       \* the PackageModel of the last buildPackageModel call
  appended,    \* the issues of the last rule run in the order they were pushed
  issues,      \* the issues stored for the package root (packageIssues)
  pc,          \* where the validation pass stands: pending, done or failed
  passes,      \* the number of passes that ended
  firstFs,     \* the tree, the model and the issues of the first pass
  firstModel,
  firstIssues,
  result,      \* the outcome of the last direct parser call
  orchestrator \* the orchestrator over the package roots of the workspace

vars ==
  <<fs, model, appended, issues, pc, passes, firstFs, firstModel, firstIssues, result,
    orchestrator>>

(***************************************************************************)
(* Strings                                                                 *)
(***************************************************************************)

\* s.charAt(i - 1): the i-th character, "" outside the string.
CharAt(s, i) == IF i >= 1 /\ i <= Len(s) THEN SubSeq(s, i, i) ELSE ""

\* The least and the greatest of a set of positions (1-based), 0 for the empty set:
\* the first and the last index a scan from the left or from the right finds.
Least(positions) ==
  IF positions = {} THEN 0 ELSE CHOOSE i \in positions : \A j \in positions : i <= j

Greatest(positions) ==
  IF positions = {} THEN 0 ELSE CHOOSE i \in positions : \A j \in positions : j <= i

UpperToLower ==
  [A |-> "a", B |-> "b", C |-> "c", D |-> "d", E |-> "e", F |-> "f", G |-> "g",
   H |-> "h", I |-> "i", J |-> "j", K |-> "k", L |-> "l", M |-> "m", N |-> "n",
   O |-> "o", P |-> "p", Q |-> "q", R |-> "r", S |-> "s", T |-> "t", U |-> "u",
   V |-> "v", W |-> "w", X |-> "x", Y |-> "y", Z |-> "z"]

LowerChar(c) == IF c \in DOMAIN UpperToLower THEN UpperToLower[c] ELSE c

RECURSIVE toLowerCase(_)
toLowerCase(s) ==
  IF s = "" THEN "" ELSE LowerChar(CharAt(s, 1)) \o toLowerCase(SubSeq(s, 2, Len(s)))

\* The characters String.prototype.trim removes (those the model uses).
IsSpace(c) == c \in {" ", "\t", "\n", "\r"}

RECURSIVE TrimStart(_)
TrimStart(s) ==
  IF s # "" /\ IsSpace(CharAt(s, 1)) THEN TrimStart(SubSeq(s, 2, Len(s))) ELSE s

RECURSIVE TrimEnd(_)
TrimEnd(s) ==
  IF s # "" /\ IsSpace(CharAt(s, Len(s))) THEN TrimEnd(SubSeq(s, 1, Len(s) - 1)) ELSE s

trim(s) == TrimEnd(TrimStart(s))

startsWith(s, t) == Len(t) <= Len(s) /\ SubSeq(s, 1, Len(t)) = t

endsWith(s, t) == Len(t) <= Len(s) /\ SubSeq(s, Len(s) - Len(t) + 1, Len(s)) = t

\* The least position at or after from where t occurs in s, 0 when there is none.
IndexFrom(s, t, from) ==
  Least({i \in from..(Len(s) - Len(t) + 1) : SubSeq(s, i, i + Len(t) - 1) = t})

indexOf(s, t) == IndexFrom(s, t, 1)

includes(s, t) == indexOf(s, t) # 0

\* String.prototype.split on a one-character separator.
RECURSIVE split(_, _)
split(s, sep) ==
  LET CutAt(i) == IF i = 0 THEN <<s>>
                  ELSE <<SubSeq(s, 1, i - 1)>> \o split(SubSeq(s, i + 1, Len(s)), sep)
  IN  CutAt(indexOf(s, sep))

RECURSIVE join(_, _)
join(parts, sep) ==
  IF parts = <<>> THEN ""
  ELSE IF Len(parts) = 1 THEN parts[1]
  ELSE parts[1] \o sep \o join(Tail(parts), sep)

RECURSIVE ReplaceAll(_, _, _)
ReplaceAll(s, from, to) ==
  IF s = "" THEN ""
  ELSE (IF CharAt(s, 1) = from THEN to ELSE CharAt(s, 1))
       \o ReplaceAll(SubSeq(s, 2, Len(s)), from, to)

\* A string as a double-quoted scalar writes it: the backslash and the line breaks
\* escaped, so that the scalar stays on one line of the file.
Escaped(s) ==
  ReplaceAll(ReplaceAll(ReplaceAll(s, "\\", "\\\\"), "\n", "\\n"), "\r", "\\r")

(***************************************************************************)
(* String.prototype.localeCompare, as the ICU root collation decides it on *)
(* the characters the package paths and the issue codes are made of:       *)
(* punctuation before digits before letters, letters compared without      *)
(* case first, and a lower-case letter before its upper-case letter when   *)
(* everything else ties.                                                   *)
(***************************************************************************)
CollationOrder ==
  " _-,;:!?.'\"()[]{}@*/\\&#%^+<=>|~$0123456789abcdefghijklmnopqrstuvwxyz"

CharRank ==
  [c \in {CharAt(CollationOrder, i) : i \in 1..Len(CollationOrder)} |->
     CHOOSE i \in 1..Len(CollationOrder) : CharAt(CollationOrder, i) = c]

PrimaryWeight(c) ==
  LET RankOf(l) == IF l \in DOMAIN CharRank THEN CharRank[l] ELSE 0
  IN  RankOf(LowerChar(c))

RECURSIVE ComparePrimary(_, _, _)
ComparePrimary(a, b, i) ==
  IF i > Len(a) /\ i > Len(b) THEN 0
  ELSE IF i > Len(a) THEN -1
  ELSE IF i > Len(b) THEN 1
  ELSE LET Weigh(x, y) == IF x < y THEN -1 ELSE IF x > y THEN 1
                           ELSE ComparePrimary(a, b, i + 1)
       IN  Weigh(PrimaryWeight(CharAt(a, i)), PrimaryWeight(CharAt(b, i)))

RECURSIVE CompareCase(_, _, _)
CompareCase(a, b, i) ==
  IF i > Len(a) THEN 0
  ELSE IF CharAt(a, i) = CharAt(b, i) THEN CompareCase(a, b, i + 1)
  ELSE IF CharAt(a, i) = LowerChar(CharAt(a, i)) THEN -1 ELSE 1

localeCompare(a, b) ==
  IF a = b THEN 0
  ELSE LET Decide(primary) == IF primary # 0 THEN primary ELSE CompareCase(a, b, 1)
       IN  Decide(ComparePrimary(a, b, 1))

(***************************************************************************)
(* Documents: the values JSON.parse and the YAML library produce, tagged   *)
(* by their JavaScript type.  An object is the sequence of its (key,       *)
(* value) pairs in insertion order, which is the order Object.entries and  *)
(* Object.values enumerate.  Undefined is the value of an absent property  *)
(* and of an absent optional field.                                        *)
(***************************************************************************)
JStr(s) == [t |-> "str", s |-> s]
JNum(n) == [t |-> "num", n |-> n]
JBool(b) == [t |-> "bool", b |-> b]
JNull == [t |-> "null"]
JArr(a) == [t |-> "arr", a |-> a]
JObj(o) == [t |-> "obj", o |-> o]
Undefined == [t |-> "undef"]
KV(k, v) == [k |-> k, v |-> v]

\* Boolean(value) && typeof value === "object" && !Array.isArray(value)
isRecord(v) == v.t = "obj"

isString(v) == v.t = "str"

isArray(v) == v.t = "arr"

\* JavaScript truthiness of a string-or-undefined field ("if (x.error)").
Truthy(v) == v.t = "str" /\ v.s # ""

\* obj.key: the value of the last pair with that key, undefined when there is none.
Get(v, key) ==
  LET ValueAt(i) == IF i = 0 THEN Undefined ELSE v.o[i].v
  IN  ValueAt(Greatest({i \in 1..Len(v.o) : v.o[i].k = key}))

\* "key" in obj
HasKey(v, key) == \E i \in 1..Len(v.o) : v.o[i].k = key

\* typeof v === "string" && v.trim().length > 0
NonBlankString(v) == isString(v) /\ Len(trim(v.s)) > 0

(***************************************************************************)
(* The text of a file the test fixtures write with JSON.stringify(v, null, *)
(* 2), as its lines; and the block-style YAML text of a flat manifest.     *)
(***************************************************************************)
RECURSIVE Pad(_)
Pad(n) == IF n <= 0 THEN "" ELSE " " \o Pad(n - 1)

WithComma(ls, more) ==
  IF more THEN [ls EXCEPT ![Len(ls)] = ls[Len(ls)] \o ","] ELSE ls

Prefixed(ls, prefix) == [ls EXCEPT ![1] = prefix \o ls[1]]

RECURSIVE stringify(_, _)
RECURSIVE StringifyItems(_, _, _, _)
stringify(v, ind) ==
  CASE v.t = "str" -> <<"\"" \o Escaped(v.s) \o "\"">>
    [] v.t = "num" -> <<ToString(v.n)>>
    [] v.t = "bool" -> <<IF v.b THEN "true" ELSE "false">>
    [] v.t = "arr" ->
         IF v.a = <<>> THEN <<"[]">>
         ELSE <<"[">> \o StringifyItems(v.a, FALSE, 1, ind + 2) \o <<Pad(ind) \o "]">>
    [] v.t = "obj" ->
         IF v.o = <<>> THEN <<"{}">>
         ELSE <<"{">> \o StringifyItems(v.o, TRUE, 1, ind + 2) \o <<Pad(ind) \o "}">>
    [] OTHER -> <<"null">>
StringifyItems(items, keyed, i, ind) ==
  IF i > Len(items) THEN <<>>
  ELSE LET body == IF keyed THEN stringify(items[i].v, ind) ELSE stringify(items[i], ind)
           lead == IF keyed THEN Pad(ind) \o "\"" \o items[i].k \o "\": " ELSE Pad(ind)
       IN  WithComma(Prefixed(body, lead), i < Len(items))
           \o StringifyItems(items, keyed, i + 1, ind)

RECURSIVE YamlItems(_, _)
YamlItems(a, i) ==
  IF i > Len(a) THEN <<>>
  ELSE <<"  - " \o (IF a[i].t = "str" THEN a[i].s ELSE stringify(a[i], 4)[1])>>
       \o YamlItems(a, i + 1)

\* A string scalar: plain, or double-quoted where plain style would lose its blanks
\* or its line breaks.
YamlScalar(s) ==
  IF s # "" /\ trim(s) = s /\ ~includes(s, "\n") /\ ~includes(s, "\r") THEN s
  ELSE "\"" \o Escaped(s) \o "\""

RECURSIVE YamlLines(_, _)
YamlLines(o, i) ==
  IF i > Len(o) THEN <<"">>
  ELSE LET v == o[i].v
       IN  (CASE v.t = "str" -> <<o[i].k \o ": " \o YamlScalar(v.s)>>
              [] v.t = "arr" /\ v.a # <<>> -> <<o[i].k \o ":">> \o YamlItems(v.a, 1)
              [] OTHER -> <<o[i].k \o ": " \o stringify(v, 0)[1]>>)
           \o YamlLines(o, i + 1)

(***************************************************************************)
(* The file system.  A directory is the sequence of its entries in the     *)
(* order readdirSync lists them; a file carries its text as lines (split   *)
(* at /\r?\n/), whether it can be read, and what the parsing library makes *)
(* of its text.  fs is the package root directory, mounted at rootPath.    *)
(***************************************************************************)
rootPath == "/pkg"

NoNode == [kind |-> "none"]

Dir(entries) == [kind |-> "dir", entries |-> entries, readable |-> TRUE]

\* A directory the process may not list (readdirSync throws EACCES).
UnreadableDir == [kind |-> "dir", entries |-> <<>>, readable |-> FALSE]

Entry(name, node) == [name |-> name, node |-> node]

ParseOk(v) == [ok |-> TRUE, value |-> v, error |-> ""]
ParseFail(msg) == [ok |-> FALSE, value |-> Undefined, error |-> msg]

\* json is what JSON.parse makes of the text, yaml what parseDocument makes of it.
File(lines, json, yaml) ==
  [kind |-> "file", lines |-> lines, readable |-> TRUE, json |-> json, yaml |-> yaml]

NotJson == ParseFail("Unexpected token in JSON at position 0")

\* A file written with JSON.stringify(doc, null, 2); YAML reads JSON text as well.
JsonFile(doc) == File(stringify(doc, 0), ParseOk(doc), ParseOk(doc))

\* A block-style YAML manifest with the fields of doc.
YamlFile(doc) == File(YamlLines(doc.o, 1), NotJson, ParseOk(doc))

\* A text file: no JSON, and to YAML one plain scalar.
TextFile(lines) == File(lines, NotJson, ParseOk(JStr(join(lines, " "))))

\* A file whose text is well-formed in neither format.
MalformedFile ==
  File(<<"{ \"displayName\": ">>, ParseFail("Unexpected end of JSON input"),
       ParseFail("Flow map must end with a }"))

\* A file the process may not read (readFileSync throws EACCES), whatever its text.
Unreadable(file) == [file EXCEPT !.readable = FALSE]

UnreadableFile == Unreadable(MalformedFile)

Child(dir, name) ==
  LET NodeAt(i) == IF i = 0 THEN NoNode ELSE dir.entries[i].node
  IN  NodeAt(Least({i \in 1..Len(dir.entries) : dir.entries[i].name = name}))

RECURSIVE Walk(_, _)
Walk(node, segs) ==
  IF segs = <<>> THEN node
  ELSE IF node.kind # "dir" THEN NoNode
  ELSE Walk(Child(node, Head(segs)), Tail(segs))

\* path.normalize on the segments of a path: "" and "." dropped, ".." steps up.
RECURSIVE NormalizeSegments(_, _)
NormalizeSegments(segs, acc) ==
  IF segs = <<>> THEN acc
  ELSE IF Head(segs) \in {"", "."} THEN NormalizeSegments(Tail(segs), acc)
  ELSE IF Head(segs) = ".."
       THEN NormalizeSegments(Tail(segs),
                              IF acc = <<>> THEN <<>> ELSE SubSeq(acc, 1, Len(acc) - 1))
  ELSE NormalizeSegments(Tail(segs), Append(acc, Head(segs)))

isAbsolute(p) == startsWith(p, "/")

pathNormalize(p) ==
  LET Rooted(body) == IF isAbsolute(p) THEN "/" \o body ELSE IF body = "" THEN "." ELSE body
  IN  Rooted(join(NormalizeSegments(split(p, "/"), <<>>), "/"))

pathJoin(a, b) == pathNormalize(a \o "/" \o b)

\* The segments of an absolute path below rootPath; <<"..">> when it lies elsewhere.
SegmentsBelowRoot(p) ==
  LET Below(n) == IF n = rootPath THEN <<>>
                  ELSE IF startsWith(n, rootPath \o "/")
                       THEN split(SubSeq(n, Len(rootPath) + 2, Len(n)), "/")
                       ELSE <<"..">>
  IN  Below(pathNormalize(p))

\* The node at an absolute path; nothing exists outside the package root.
Lookup(tree, p) == Walk(tree, SegmentsBelowRoot(p))

\* A file, and no directory, at the path.
ExistsAsFile(tree, p) == Lookup(tree, p).kind = "file"

existsSync(tree, p) == Lookup(tree, p).kind # "none"

isDirectory(tree, p) == Lookup(tree, p).kind = "dir"

isFile(tree, p) == Lookup(tree, p).kind = "file"

\* fs.existsSync(p) && fs.statSync(p).isDirectory()
ExistsAsDirectory(tree, p) ==
  LET Stat(node) == node.kind # "none" /\ node.kind = "dir" IN Stat(Lookup(tree, p))

readdirSync(tree, p) == Lookup(tree, p).entries

\* fs.readFileSync(p, "utf8"): the text, or the error it throws.
Thrown(message) ==
  [threw |-> TRUE, error |-> message, lines |-> <<>>, json |-> NotJson, yaml |-> NotJson]

\* fs.readFileSync(p, "utf8"): the text (its lines, and what JSON.parse and the YAML
\* library make of it), or the error the call throws.
readFileSync(tree, p) ==
  LET Read(n) ==
        CASE n.kind = "none" -> Thrown("ENOENT: no such file or directory")
          [] n.kind = "dir" -> Thrown("EISDIR: illegal operation on a directory")
          [] ~n.readable -> Thrown("EACCES: permission denied")
          [] OTHER -> [threw |-> FALSE, error |-> "", lines |-> n.lines,
                       json |-> n.json, yaml |-> n.yaml]
  IN  Read(Lookup(tree, p))

basename(p) == LET Last(segs) == segs[Len(segs)] IN Last(split(p, "/"))

\* The positions of the dots of a name.
DotsOf(name) == {i \in 1..Len(name) : CharAt(name, i) = "."}

\* path.extname: from the last dot of the base name, unless that dot starts the name.
extname(p) ==
  LET FromDot(b, last) == IF last <= 1 THEN "" ELSE SubSeq(b, last, Len(b))
  IN  FromDot(basename(p), Greatest(DotsOf(basename(p))))

normalizeSeparators(p) == ReplaceAll(p, "\\", "/")

\* normalizeSeparators(path.relative(rootPath, target)) for a target below the root.
toRelativePath(root, target) ==
  IF target = root THEN "" ELSE SubSeq(target, Len(root) + 2, Len(target))

splitRelativePath(relativePath) ==
  SelectSeq(split(normalizeSeparators(relativePath), "/"), LAMBDA seg : Len(seg) > 0)

\* The depth with the top-level folder counted as a level.
DepthCountingTopLevel(relativePath) == Len(splitRelativePath(relativePath))

getDepthBelowTopLevel(relativePath) ==
  LET DepthOf(segments) == IF Len(segments) <= 1 THEN 0 ELSE Len(segments) - 1
  IN  DepthOf(splitRelativePath(relativePath))

(***************************************************************************)
(* Document parsers.  A ParsedResult is [data, error, threw]: data is the  *)
(* record document or null, error the message or undefined; threw tells    *)
(* whether the call let an exception escape.                               *)
(***************************************************************************)
NoLine == 0

Returned(data, error) == [data |-> data, error |-> error, threw |-> FALSE]

\* No catch clause: the exception escapes the parser.
ParserNoCatch(message) == [data |-> JNull, error |-> JStr(message), threw |-> TRUE]

\* The catch clause of the parsers: the exception becomes the error of the result.
ParserCatch(message) == Returned(JNull, JStr(message))

\* No test of the root: whatever the library returned is the document.
RootCheckSkipped(value, what) == Returned(value, Undefined)

\* The root test returning null without an error.
RootCheckWithoutError(value, what) ==
  IF ~isRecord(value) THEN Returned(JNull, Undefined) ELSE Returned(value, Undefined)

\* if (!isRecord(parsed)) return { data: null, error: "... root must be an object" }
RootCheck(value, what) ==
  IF ~isRecord(value) THEN Returned(JNull, JStr(what \o " root must be an object"))
  ELSE Returned(value, Undefined)

parseJsonFile(tree, filePath) ==
  LET Parse(text) ==
        IF text.threw THEN ParserCatch(text.error)
        ELSE IF ~text.json.ok THEN ParserCatch(text.json.error)
        ELSE RootCheck(text.json.value, "JSON")
  IN  Parse(readFileSync(tree, filePath))

parseYamlFile(tree, filePath) ==
  LET Parse(text) ==
        IF text.threw THEN ParserCatch(text.error)
        ELSE IF ~text.yaml.ok THEN Returned(JNull, JStr(text.yaml.error))
        ELSE RootCheck(text.yaml.value, "YAML")
  IN  Parse(readFileSync(tree, filePath))

parseFileByExtension(tree, filePath) ==
  LET ByExtension(extension) ==
        IF extension = ".json" THEN parseJsonFile(tree, filePath)
        ELSE IF extension \in {".yaml", ".yml"} THEN parseYamlFile(tree, filePath)
        ELSE Returned(JNull, JStr("Unsupported file extension for parse: " \o extension))
  IN  ByExtension(toLowerCase(extname(filePath)))

parseOpenApiFile(tree, filePath) == parseFileByExtension(tree, filePath)

\* The first line (1-based) that contains one of the tokens; NoLine when no line
\* does or the file cannot be read.  A string token is the one-element set.
findLineContaining(tree, filePath, tokens) ==
  LET FirstHit(text) ==
        IF text.threw THEN NoLine
        ELSE Least({i \in 1..Len(text.lines) :
                      \E tk \in tokens : includes(text.lines[i], tk)})
  IN  FirstHit(readFileSync(tree, filePath))

(***************************************************************************)
(* The instruction parser.                                                 *)
(***************************************************************************)
KNOWN_SECTIONS == <<"role", "persona", "constraints", "taskflow", "examples">>

REQUIRED_SECTIONS == <<"role">>

SectionNames == {KNOWN_SECTIONS[i] : i \in 1..Len(KNOWN_SECTIONS)}

\* The opening marker looked for anywhere on the line: the leftmost one.
SectionOpenAnywhere(trimmed) ==
  LET At(n) == indexOf(toLowerCase(trimmed), "<" \o n \o ">")
      NameIn(found) ==
        IF found = {} THEN ""
        ELSE CHOOSE n \in found : \A other \in found : At(n) <= At(other)
  IN  NameIn({n \in SectionNames : At(n) # 0})

\* SECTION_OPEN_RE = /^<(role|persona|constraints|taskflow|examples)>/i
\* The section name the line opens, "" when the expression does not match.
SectionOpenMatch(trimmed) ==
  LET NameIn(found) == IF found = {} THEN "" ELSE CHOOSE n \in found : TRUE
  IN  NameIn({n \in SectionNames : startsWith(toLowerCase(trimmed), "<" \o n \o ">")})

\* SECTION_CLOSE_RE = /<\/(role|persona|constraints|taskflow|examples)>/i
\* The name of the leftmost closing marker of the line, "" when there is none.
SectionCloseMatch(trimmed) ==
  LET At(low, n) == indexOf(low, "</" \o n \o ">")
      Leftmost(low, found) ==
        IF found = {} THEN ""
        ELSE CHOOSE n \in found : \A other \in found : At(low, n) <= At(low, other)
      MarkersOf(low) == Leftmost(low, {n \in SectionNames : At(low, n) # 0})
  IN  MarkersOf(toLowerCase(trimmed))

\* The index of the first open section of that name.
FirstOpenSection(openSections, name) ==
  Least({i \in 1..Len(openSections) : openSections[i].name = name})

TopOpenSection(openSections, name) == Len(openSections)

\* The index of the last open section of that name, 0 (the code's -1) when none is open.
findLastOpenSection(openSections, name) ==
  Greatest({i \in 1..Len(openSections) : openSections[i].name = name})

isInsideSection(openSections, sectionName) ==
  \E i \in 1..Len(openSections) : openSections[i].name = sectionName

\* array.splice(i, 1)
RemoveAt(seq, i) == SubSeq(seq, 1, i - 1) \o SubSeq(seq, i + 1, Len(seq))

\* AGENT_REF_RE = /\{@AGENT:\s*([^}]+)\}/g and TOOL_REF_RE, run to exhaustion over a
\* line: each match's first group, trimmed.
RECURSIVE RefMatches(_, _, _)
RefMatches(line, opener, from) ==
  LET Group(i, j) ==
        IF i = 0 \/ j = 0 THEN <<>>
        ELSE IF j = i + Len(opener) THEN RefMatches(line, opener, i + 1)
        ELSE <<trim(SubSeq(line, i + Len(opener), j - 1))>> \o RefMatches(line, opener, j + 1)
      Opened(i) == Group(i, IF i = 0 THEN 0 ELSE IndexFrom(line, "}", i + Len(opener)))
  IN  Opened(IndexFrom(line, opener, from))

Letters == DOMAIN UpperToLower \cup {UpperToLower[c] : c \in DOMAIN UpperToLower}

Digits == {"0", "1", "2", "3", "4", "5", "6", "7", "8", "9"}

IdentStart(c) == c \in Letters \cup {"_"}

IdentChar(c) == c \in Letters \cup Digits \cup {"_", "."}

\* The last position of the longest run of identifier characters that starts at i.
RunEnd(line, i) ==
  Least({k \in i..Len(line) : k = Len(line) \/ ~IdentChar(CharAt(line, k + 1))})

\* TOOL_CALL_RE = /([a-zA-Z_][a-zA-Z0-9_.]*)\(([^)]*)\)/g, run to exhaustion over a
\* line: each match's first group.
RECURSIVE CallMatches(_, _)
CallMatches(line, from) ==
  LET Called(runEnd) ==
        CharAt(line, runEnd + 1) = "(" /\ IndexFrom(line, ")", runEnd + 2) # 0
      Match(i, runEnd) ==
        IF i = 0 THEN <<>>
        ELSE <<SubSeq(line, i, runEnd)>>
             \o CallMatches(line, IndexFrom(line, ")", runEnd + 2) + 1)
      MatchAt(i) == Match(i, IF i = 0 THEN 0 ELSE RunEnd(line, i))
  IN  MatchAt(Least({i \in from..Len(line) :
                       IdentStart(CharAt(line, i)) /\ Called(RunEnd(line, i))}))

FALSE_POSITIVES ==
  {"e", "g", "name", "step", "action", "trigger", "subtask",
   "user", "agent", "example", "tool_call", "i", "s", "t"}

HasCharIn(s, set) == \E i \in 1..Len(s) : CharAt(s, i) \in set

isLikelyToolCall(operation) ==
  IF toLowerCase(operation) \in FALSE_POSITIVES THEN FALSE
  ELSE IF includes(operation, ".") THEN TRUE
  ELSE /\ Len(operation) >= 3
       /\ HasCharIn(operation, {UpperToLower[c] : c \in DOMAIN UpperToLower})
       /\ HasCharIn(operation, DOMAIN UpperToLower \cup {"_"})

MapSeq(seq, Op(_)) == [i \in 1..Len(seq) |-> Op(seq[i])]

\* if (openMatch) openSections.push({ name, startLine: lineNumber })
PushOpened(openSections, openName, lineNumber) ==
  IF openName # "" THEN Append(openSections, [name |-> openName, startLine |-> lineNumber])
  ELSE openSections

\* if (openIdx !== -1) { sections.push(...); openSections.splice(openIdx, 1) }
PopClosed(st, opened, openIdx, lineNumber) ==
  IF openIdx = 0 THEN [st EXCEPT !.openSections = opened]
  ELSE [st EXCEPT !.sections = Append(@, [name |-> opened[openIdx].name,
                                          startLine |-> opened[openIdx].startLine,
                                          endLine |-> lineNumber]),
                  !.openSections = RemoveAt(opened, openIdx)]

\* The reference and tool-call scans of a line, after its section markers.
ScanLine(st, line, lineNumber) ==
  [st EXCEPT
     !.references =
        @ \o MapSeq(RefMatches(line, "{@AGENT:", 1),
                    LAMBDA n : [type |-> "agent", name |-> n, line |-> lineNumber])
          \o MapSeq(RefMatches(line, "{@TOOL:", 1),
                    LAMBDA n : [type |-> "tool", name |-> n, line |-> lineNumber]),
     !.toolCalls =
        @ \o (IF isInsideSection(st.openSections, "examples")
              THEN MapSeq(SelectSeq(CallMatches(line, 1), isLikelyToolCall),
                          LAMBDA op : [operation |-> op, line |-> lineNumber])
              ELSE <<>>)]

\* One turn of the parser's loop over the lines: the state after line number i.
ParseLine(st, line, lineNumber) ==
  LET Close(opened, closeName) ==
        PopClosed(st, opened,
                  IF closeName = "" THEN 0 ELSE findLastOpenSection(opened, closeName),
                  lineNumber)
      Markers(trimmed) ==
        Close(PushOpened(st.openSections, SectionOpenMatch(trimmed), lineNumber),
              SectionCloseMatch(trimmed))
  IN  ScanLine(Markers(trim(line)), line, lineNumber)

RECURSIVE ParseLines(_, _, _)
ParseLines(st, lines, i) ==
  IF i > Len(lines) THEN st ELSE ParseLines(ParseLine(st, lines[i], i), lines, i + 1)

RECURSIVE UnclosedList(_, _)
UnclosedList(openSections, i) ==
  IF i > Len(openSections) THEN ""
  ELSE "<" \o openSections[i].name \o "> at line " \o ToString(openSections[i].startLine)
       \o (IF i < Len(openSections) THEN ", " ELSE "")
       \o UnclosedList(openSections, i + 1)

\* const parseError = openSections.length > 0 ? `Unclosed section(s): ...` : undefined
UnclosedError(openSections) ==
  IF openSections = <<>> THEN Undefined
  ELSE JStr("Unclosed section(s): " \o UnclosedList(openSections, 1))

parseInstructionFile(tree, filePath, agentName) ==
  LET Info(sections, references, toolCalls, parseError) ==
        [agentName |-> agentName, filePath |-> filePath, sections |-> sections,
         references |-> references, toolCalls |-> toolCalls, parseError |-> parseError]
      Parsed(st) ==
        Info(st.sections, st.references, st.toolCalls, UnclosedError(st.openSections))
      Parse(content) ==
        IF content.threw THEN Info(<<>>, <<>>, <<>>, JStr(content.error))
        ELSE Parsed(ParseLines([sections |-> <<>>, references |-> <<>>, toolCalls |-> <<>>,
                                openSections |-> <<>>], content.lines, 1))
  IN  Parse(readFileSync(tree, filePath))

(***************************************************************************)
(* Array.prototype.sort: a stable sort by a comparator, and the default    *)
(* sort of strings by UTF-16 code units.                                   *)
(***************************************************************************)
SortStable(seq, Cmp(_, _)) ==
  LET n == Len(seq)
      pos == [i \in 1..n |->
                1 + Cardinality({j \in 1..n :
                                   \/ Cmp(seq[j], seq[i]) < 0
                                   \/ Cmp(seq[j], seq[i]) = 0 /\ j < i})]
  IN  [k \in 1..n |-> seq[CHOOSE i \in 1..n : pos[i] = k]]

CodeUnitOrder ==
  " !\"#$%&'()*+,-./0123456789:;<=>?@ABCDEFGHIJKLMNOPQRSTUVWXYZ[\\]^_abcdefghijklmnopqrstuvwxyz{|}~"

CodeUnit ==
  [c \in {CharAt(CodeUnitOrder, i) : i \in 1..Len(CodeUnitOrder)} |->
     CHOOSE i \in 1..Len(CodeUnitOrder) : CharAt(CodeUnitOrder, i) = c]

CodeUnitOf(c) == IF c \in DOMAIN CodeUnit THEN CodeUnit[c] ELSE 0

RECURSIVE CompareCodeUnits(_, _, _)
CompareCodeUnits(a, b, i) ==
  IF i > Len(a) /\ i > Len(b) THEN 0
  ELSE IF i > Len(a) THEN -1
  ELSE IF i > Len(b) THEN 1
  ELSE IF CodeUnitOf(CharAt(a, i)) < CodeUnitOf(CharAt(b, i)) THEN -1
  ELSE IF CodeUnitOf(CharAt(a, i)) > CodeUnitOf(CharAt(b, i)) THEN 1
  ELSE CompareCodeUnits(a, b, i + 1)

DefaultCompare(a, b) == CompareCodeUnits(a, b, 1)

\* names.sort()
SortNames(names) == SortStable(names, DefaultCompare)

\* [...set].sort()
SortedSet(set) ==
  [k \in 1..Cardinality(set) |->
     CHOOSE x \in set : Cardinality({y \in set : DefaultCompare(y, x) < 0}) = k - 1]

CompareByName(left, right) == localeCompare(left.name, right.name)

Range(seq) == {seq[i] : i \in 1..Len(seq)}

RECURSIVE Flatten(_)
Flatten(seqs) == IF seqs = <<>> THEN <<>> ELSE Head(seqs) \o Flatten(Tail(seqs))

\* The sequence <<x>> when the condition holds, the empty sequence otherwise.
When(cond, x) == IF cond THEN <<x>> ELSE <<>>

\* What a loop pushes: one turn per element, in order.
ForEach(seq, Op(_)) == Flatten([i \in 1..Len(seq) |-> Op(seq[i])])

(***************************************************************************)
(* The package model builder.                                              *)
(***************************************************************************)
NoPath == ""

SCHEMA_EXTENSIONS == {".yaml", ".yml", ".json"}

\* The absolute paths of the immediate subdirectories, in listing order.
collectImmediateDirectories(tree, dirPath) ==
  LET Listed(node) ==
        IF node.kind # "dir" THEN <<>>
        ELSE MapSeq(SelectSeq(node.entries, LAMBDA e : e.node.kind = "dir"),
                    LAMBDA e : pathJoin(dirPath, e.name))
  IN  Listed(Lookup(tree, dirPath))

\* The recursive listing: every directory, then its content, depth first.  A
\* directory entry tells whether readdirSync on it is denied.
RECURSIVE CollectNode(_, _)
CollectNode(node, dirPath) ==
  Flatten([i \in 1..Len(node.entries) |->
             LET Visit(e, absolutePath) ==
                   IF e.node.kind = "dir"
                   THEN <<[dir |-> TRUE, path |-> absolutePath, denied |-> ~e.node.readable]>>
                        \o CollectNode(e.node, absolutePath)
                   ELSE <<[dir |-> FALSE, path |-> absolutePath, denied |-> FALSE]>>
             IN  Visit(node.entries[i], dirPath \o "/" \o node.entries[i].name)])

collectPaths(tree, dirPath) ==
  LET Listed(node) == IF node.kind # "dir" THEN <<>> ELSE CollectNode(node, dirPath)
  IN  Listed(Lookup(tree, dirPath))

readDirectoryEntries(tree, dirPath) ==
  LET Listed(node) ==
        IF node.kind # "dir" THEN <<>>
        ELSE MapSeq(node.entries,
                    LAMBDA e : [name |-> e.name, isFile |-> e.node.kind = "file",
                                isDirectory |-> e.node.kind = "dir"])
  IN  Listed(Lookup(tree, dirPath))

\* fs.existsSync(manifestPath) ? parseJsonFile(manifestPath) : { data: null, error }
ManifestParse(tree, manifestPath, missing) ==
  IF existsSync(tree, manifestPath) THEN parseJsonFile(tree, manifestPath)
  ELSE Returned(JNull, JStr(missing))

\* The info record of an entity folder (AgentInfo, EvaluationInfo, PythonToolInfo).
ManifestOf(tree, dirPath, missing) ==
  LET Info(name, manifestPath, parsed) ==
        [name |-> name, dirPath |-> dirPath, manifestPath |-> manifestPath,
         manifestData |-> parsed.data, manifestError |-> parsed.error]
      Named(name, manifestPath) ==
        Info(name, manifestPath, ManifestParse(tree, manifestPath, missing))
      InFolder(name) == Named(name, pathJoin(dirPath, name \o ".json"))
  IN  InFolder(basename(dirPath))

\* The entity folders below <root>/<folder>, each with its manifest, sorted by name.
EntityInfos(tree, root, folder, missing) ==
  SortStable(MapSeq(collectImmediateDirectories(tree, pathJoin(root, folder)),
                    LAMBDA d : ManifestOf(tree, d, missing)),
             CompareByName)

collectAgentInfos(tree, root) ==
  EntityInfos(tree, root, "agents", "Missing agent manifest file")

findFirstSchemaFile(tree, openApiDirPath) ==
  LET FirstOf(files, i) == IF i = 0 THEN NoPath ELSE pathJoin(openApiDirPath, files[i].name)
      Scan(files) ==
        FirstOf(files, Least({i \in 1..Len(files) :
                                /\ files[i].node.kind = "file"
                                /\ toLowerCase(extname(files[i].name)) \in SCHEMA_EXTENSIONS}))
      Listed(node) == IF node.kind # "dir" THEN NoPath ELSE Scan(node.entries)
  IN  Listed(Lookup(tree, openApiDirPath))

collectToolsetInfos(tree, root) ==
  LET Info(m, openApiDirPath) ==
        [name |-> m.name, dirPath |-> m.dirPath, manifestPath |-> m.manifestPath,
         manifestData |-> m.manifestData, manifestError |-> m.manifestError,
         openApiDirPath |-> openApiDirPath,
         autoDetectedSchemaPath |-> findFirstSchemaFile(tree, openApiDirPath)]
  IN  MapSeq(EntityInfos(tree, root, "toolsets", "Missing toolset manifest file"),
             LAMBDA m : Info(m, pathJoin(m.dirPath, "open_api_toolset")))

collectEvaluationInfos(tree, root) ==
  EntityInfos(tree, root, "evaluations", "Missing evaluation manifest file")

collectPythonToolInfos(tree, root) ==
  EntityInfos(tree, root, "tools", "Missing Python tool manifest file")

\* The elements of an array field that are strings, blank ones included.
AllStringsOf(v) ==
  IF ~isArray(v) THEN {} ELSE {v.a[i].s : i \in {j \in 1..Len(v.a) : isString(v.a[j])}}

\* The elements of an array field that are non-blank strings; {} when it is no array.
NonBlankStringsOf(v) ==
  IF ~isArray(v) THEN {} ELSE {v.a[i].s : i \in {j \in 1..Len(v.a) : NonBlankString(v.a[j])}}

\* The record elements of an array field, as a set; {} when it is no array.
RecordsOf(v) ==
  IF ~isArray(v) THEN {} ELSE {v.a[i] : i \in {j \in 1..Len(v.a) : isRecord(v.a[j])}}

\* The sets left over in the model of the previous pass.
StaleDirectTools == IF model.built THEN model.directTools ELSE {}

\* const directTools = new Set<string>()
NewDirectTools == {}

\* typeof entry.toolset === "string" ? entry.toolset : ""
ToolsetNameOf(entry) ==
  LET NameOf(toolset) == IF isString(toolset) THEN toolset.s ELSE ""
  IN  NameOf(Get(entry, "toolset"))

buildToolInventory(agentInfos, toolsetInfos, pythonToolInfos) ==
  LET Inventory(agents, toolsets, refs) ==
        [directTools |->
           NewDirectTools
           \cup UNION {NonBlankStringsOf(Get(a.manifestData, "tools")) : a \in agents}
           \cup {pt.name : pt \in Range(pythonToolInfos)},
         openApiOperations |->
           UNION {NonBlankStringsOf(Get(e, "toolIds")) : e \in refs}
           \cup UNION {NonBlankStringsOf(Get(ts.manifestData, "toolIds")) : ts \in toolsets},
         openApiNamespacedOperations |->
           UNION {{ToolsetNameOf(e) \o "." \o tid : tid \in NonBlankStringsOf(Get(e, "toolIds"))} :
                    e \in {r \in refs : ToolsetNameOf(r) # ""}}
           \cup UNION {{ts.name \o "." \o tid :
                          tid \in NonBlankStringsOf(Get(ts.manifestData, "toolIds"))} :
                         ts \in toolsets}]
      Scanned(agents) ==
        Inventory(agents, {ts \in Range(toolsetInfos) : isRecord(ts.manifestData)},
                  UNION {RecordsOf(Get(a.manifestData, "toolsets")) : a \in agents})
  IN  Scanned({a \in Range(agentInfos) : isRecord(a.manifestData)})

GLOBAL_SENTINEL == "__global__"

\* if (fs.existsSync(instructionPath)) results.push(parseInstructionFile(...))
InstructionIfPresent(tree, instructionPath, agentName) ==
  When(existsSync(tree, instructionPath),
       parseInstructionFile(tree, instructionPath, agentName))

collectInstructionInfos(tree, root, agentInfos) ==
  ForEach(agentInfos,
          LAMBDA a : InstructionIfPresent(tree, pathJoin(a.dirPath, "instruction.txt"), a.name))
  \o InstructionIfPresent(tree, pathJoin(root, "global_instruction.txt"), GLOBAL_SENTINEL)

NoEnvironment == [t |-> "null"]

NoException == ""

\* The message of the exception a parser call let escape, if it did.
ThrownBy(parsed) == IF parsed.threw THEN <<parsed.error.s>> ELSE <<>>

\* The exceptions of the manifest parses of the entity folders below a top-level folder.
ManifestExceptions(tree, root, folder) ==
  ForEach(collectImmediateDirectories(tree, pathJoin(root, folder)),
          LAMBDA dirPath :
            ThrownBy(ManifestParse(tree, pathJoin(dirPath, basename(dirPath) \o ".json"),
                                   "")))

\* The message of the exception that escapes buildPackageModel, NoException when it
\* returns: the first that a call throws, in the order of the calls.  collectPaths
\* lists every directory of the tree, and readdirSync on one that may not be listed
\* throws; the parsers catch what the reads and the libraries throw.
BuildException(tree, root) ==
  LET FirstOf(thrown) == IF thrown = <<>> THEN NoException ELSE thrown[1]
      OfManifest(manifestPath) ==
        IF existsSync(tree, manifestPath)
        THEN ThrownBy(parseFileByExtension(tree, manifestPath))
        ELSE <<>>
      OfEnvironment(environmentPath) ==
        IF existsSync(tree, environmentPath)
        THEN ThrownBy(parseJsonFile(tree, environmentPath))
        ELSE <<>>
  IN  FirstOf(OfManifest(pathJoin(root, IF existsSync(tree, pathJoin(root, "app.yaml"))
                                        THEN "app.yaml" ELSE "app.json"))
              \o MapSeq(SelectSeq(collectPaths(tree, root), LAMBDA e : e.denied),
                        LAMBDA e : "EACCES: permission denied, scandir '" \o e.path \o "'")
              \o ForEach(<<"agents", "toolsets", "tools", "evaluations">>,
                         LAMBDA folder : ManifestExceptions(tree, root, folder))
              \o OfEnvironment(pathJoin(root, "environment.json")))

NotBuilt == [built |-> FALSE]

buildPackageModel(tree, root) ==
  LET Model(hasAppYaml, hasAppJson, manifestPath, manifestParse, paths, topLevelEntries,
            agentInfos, toolsetInfos, pythonToolInfos, inventory, environmentPath) ==
        [built |-> TRUE,
         rootPath |-> root,
         hasAppJson |-> hasAppJson,
         hasAppYaml |-> hasAppYaml,
         manifestPath |-> manifestPath,
         manifestFormat |-> IF hasAppYaml THEN "yaml" ELSE IF hasAppJson THEN "json" ELSE "none",
         manifestData |-> manifestParse.data,
         manifestError |-> manifestParse.error,
         files |-> MapSeq(SelectSeq(paths, LAMBDA e : ~e.dir), LAMBDA e : e.path),
         directories |-> MapSeq(SelectSeq(paths, LAMBDA e : e.dir), LAMBDA e : e.path),
         topLevelFiles |-> SortNames(MapSeq(SelectSeq(topLevelEntries, LAMBDA e : e.isFile),
                                            LAMBDA e : e.name)),
         topLevelDirs |-> SortNames(MapSeq(SelectSeq(topLevelEntries, LAMBDA e : e.isDirectory),
                                           LAMBDA e : e.name)),
         agentInfos |-> agentInfos,
         toolsetInfos |-> toolsetInfos,
         pythonToolInfos |-> pythonToolInfos,
         evaluationInfos |-> collectEvaluationInfos(tree, root),
         instructionInfos |-> collectInstructionInfos(tree, root, agentInfos),
         guardrailDirs |-> collectImmediateDirectories(tree, pathJoin(root, "guardrails")),
         environment |->
           IF existsSync(tree, environmentPath)
           THEN LET Parsed(parsed) == [t |-> "env", filePath |-> environmentPath,
                                       data |-> parsed.data, error |-> parsed.error]
                IN  Parsed(parseJsonFile(tree, environmentPath))
           ELSE NoEnvironment,
         directTools |-> inventory.directTools,
         openApiOperations |-> inventory.openApiOperations,
         openApiNamespacedOperations |-> inventory.openApiNamespacedOperations]
      Indexed(hasAppYaml, hasAppJson, manifestPath, agentInfos, toolsetInfos, pythonToolInfos) ==
        Model(hasAppYaml, hasAppJson, manifestPath,
              IF manifestPath # NoPath THEN parseFileByExtension(tree, manifestPath)
              ELSE Returned(JNull, Undefined),
              collectPaths(tree, root), readDirectoryEntries(tree, root),
              agentInfos, toolsetInfos, pythonToolInfos,
              buildToolInventory(agentInfos, toolsetInfos, pythonToolInfos),
              pathJoin(root, "environment.json"))
      Located(hasAppYaml, hasAppJson) ==
        Indexed(hasAppYaml, hasAppJson,
                IF hasAppYaml THEN pathJoin(root, "app.yaml")
                ELSE IF hasAppJson THEN pathJoin(root, "app.json") ELSE NoPath,
                collectAgentInfos(tree, root), collectToolsetInfos(tree, root),
                collectPythonToolInfos(tree, root))
  IN  Located(existsSync(tree, pathJoin(root, "app.yaml")),
              existsSync(tree, pathJoin(root, "app.json")))

(***************************************************************************)
(* The rule engine.  Each validate function is the sequence of issues it   *)
(* pushes, in order; the rules read the model and, where the code calls    *)
(* fs or a parser, the tree as it is when the rules run.                   *)
(***************************************************************************)
ROOT_DEPTH_LIMIT == 2

TOOLSET_DEPTH_LIMIT == 3

\* The test without the length: every unmarked value of one line taken for inline text.
InlineWhenUnmarked(value) ==
  LET Inline(trimmed) ==
        IF Len(trimmed) = 0 THEN FALSE
        ELSE IF includes(trimmed, "\n") \/ includes(trimmed, "\r") THEN TRUE
        ELSE ~(endsWith(trimmed, ".txt") \/ includes(trimmed, "/"))
  IN  Inline(trim(value))

Issue(code, message, severity, file, line) ==
  [code |-> code, message |-> message, severity |-> severity, file |-> file, line |-> line]

isLikelyInlineGlobalInstruction(value) ==
  LET Inline(trimmed) ==
        IF Len(trimmed) = 0 THEN FALSE
        ELSE IF includes(trimmed, "\n") \/ includes(trimmed, "\r") THEN TRUE
        ELSE IF endsWith(trimmed, ".txt") \/ includes(trimmed, "/") THEN FALSE
        ELSE Len(trimmed) > 20
  IN  Inline(trim(value))

\* The declared path resolved against the file system root instead of the package root.
ResolveFromCwd(root, normalized) ==
  IF isAbsolute(normalized) THEN normalized ELSE pathJoin("/", normalized)

\* path.isAbsolute(p) ? p : path.join(rootPath, p)
ResolveDeclared(root, normalized) ==
  IF isAbsolute(normalized) THEN normalized ELSE pathJoin(root, normalized)

\* The two checks without the return between them.
RootAgentBothChecks(m, tree, rootAgent) ==
  LET Check(rootAgentDir, rootAgentManifest) ==
        When(~ExistsAsDirectory(tree, rootAgentDir),
             Issue("CES_ROOT_AGENT_DIR_MISSING",
                   "rootAgent '" \o rootAgent \o "' must exist at agents/" \o rootAgent,
                   "error", m.manifestPath,
                   findLineContaining(tree, m.manifestPath, {"rootAgent"})))
        \o When(~existsSync(tree, rootAgentManifest),
                Issue("CES_ROOT_AGENT_MANIFEST_MISSING",
                      "rootAgent manifest missing at agents/" \o rootAgent \o "/"
                        \o rootAgent \o ".json",
                      "error", rootAgentManifest, 1))
      InDir(rootAgentDir) == Check(rootAgentDir, pathJoin(rootAgentDir, rootAgent \o ".json"))
  IN  InDir(pathJoin(pathJoin(m.rootPath, "agents"), rootAgent))

validateRootAgentReference(m, tree, rootAgent) ==
  LET Check(rootAgentDir, rootAgentManifest) ==
        IF ~ExistsAsDirectory(tree, rootAgentDir)
        THEN <<Issue("CES_ROOT_AGENT_DIR_MISSING",
                     "rootAgent '" \o rootAgent \o "' must exist at agents/" \o rootAgent,
                     "error", m.manifestPath,
                     findLineContaining(tree, m.manifestPath, {"rootAgent"}))>>
        ELSE When(~existsSync(tree, rootAgentManifest),
                  Issue("CES_ROOT_AGENT_MANIFEST_MISSING",
                        "rootAgent manifest missing at agents/" \o rootAgent \o "/"
                          \o rootAgent \o ".json",
                        "error", rootAgentManifest, 1))
      InDir(rootAgentDir) == Check(rootAgentDir, pathJoin(rootAgentDir, rootAgent \o ".json"))
  IN  InDir(pathJoin(pathJoin(m.rootPath, "agents"), rootAgent))

validateGlobalInstructionReference(m, tree) ==
  LET Resolve(normalized) ==
        When(~existsSync(tree, ResolveDeclared(m.rootPath, normalized)),
             Issue("CES_GLOBAL_INSTRUCTION_MISSING",
                   "globalInstruction path does not exist: " \o normalized,
                   "error", m.manifestPath,
                   findLineContaining(tree, m.manifestPath, {"globalInstruction"})))
      Check(globalInstruction) ==
        IF ~NonBlankString(globalInstruction) THEN <<>>
        ELSE IF isLikelyInlineGlobalInstruction(globalInstruction.s) THEN <<>>
        ELSE Resolve(normalizeSeparators(trim(globalInstruction.s)))
  IN  Check(Get(m.manifestData, "globalInstruction"))

\* displayName.replace(/\s+/g, "_")
RECURSIVE ReplaceWhitespaceRuns(_)
ReplaceWhitespaceRuns(s) ==
  IF s = "" THEN ""
  ELSE IF IsSpace(CharAt(s, 1)) THEN "_" \o ReplaceWhitespaceRuns(TrimStart(s))
  ELSE CharAt(s, 1) \o ReplaceWhitespaceRuns(SubSeq(s, 2, Len(s)))

GuardrailCandidatePaths(guardrailsDir, candidate) ==
  <<pathJoin(pathJoin(guardrailsDir, candidate), candidate \o ".json"),
    pathJoin(guardrailsDir, candidate \o ".json")>>

\* The resolver with the flat file tried before the nested one.
FlatBeforeNested(tree, root, displayName) ==
  LET PathAt(paths, i) == IF i = 0 THEN NoPath ELSE paths[i]
      FirstExisting(paths) ==
        PathAt(paths, Least({i \in 1..Len(paths) : existsSync(tree, paths[i])}))
      Flipped(paths) == <<paths[2], paths[1]>>
      Candidates(guardrailsDir, underscored) ==
        FirstExisting(Flipped(GuardrailCandidatePaths(guardrailsDir, displayName))
                      \o (IF underscored = displayName THEN <<>>
                          ELSE Flipped(GuardrailCandidatePaths(guardrailsDir, underscored))))
  IN  Candidates(pathJoin(root, "guardrails"), ReplaceWhitespaceRuns(displayName))

\* The first existing candidate path, NoPath (the code's null) when none exists.
resolveGuardrailManifestPath(tree, root, displayName) ==
  LET PathAt(paths, i) == IF i = 0 THEN NoPath ELSE paths[i]
      FirstExisting(paths) ==
        PathAt(paths, Least({i \in 1..Len(paths) : existsSync(tree, paths[i])}))
      Candidates(guardrailsDir, underscored) ==
        FirstExisting(GuardrailCandidatePaths(guardrailsDir, displayName)
                      \o (IF underscored = displayName THEN <<>>
                          ELSE GuardrailCandidatePaths(guardrailsDir, underscored)))
  IN  Candidates(pathJoin(root, "guardrails"), ReplaceWhitespaceRuns(displayName))

ValidateGuardrail(m, tree, guardrail) ==
  LET Named(guardrailPath, displayName) ==
        When(isString(displayName) /\ trim(displayName.s) # trim(guardrail),
             Issue("CES_GUARDRAIL_DISPLAYNAME_MISMATCH",
                   "guardrail displayName '" \o trim(displayName.s)
                     \o "' differs from manifest reference '" \o trim(guardrail) \o "'",
                   "warning", guardrailPath,
                   findLineContaining(tree, guardrailPath, {"displayName"})))
      Parsed(guardrailPath, parsed) ==
        IF Truthy(parsed.error)
        THEN <<Issue("CES_GUARDRAIL_JSON_INVALID",
                     "guardrail manifest is invalid JSON: " \o parsed.error.s,
                     "error", guardrailPath, 1)>>
        ELSE Named(guardrailPath, Get(parsed.data, "displayName"))
      Resolved(guardrailPath) ==
        IF guardrailPath = NoPath
        THEN <<Issue("CES_GUARDRAIL_REFERENCE_MISSING",
                     "guardrail reference '" \o guardrail
                       \o "' does not map to an existing guardrail manifest",
                     "error", m.manifestPath,
                     findLineContaining(tree, m.manifestPath, {guardrail}))>>
        ELSE Parsed(guardrailPath, parseJsonFile(tree, guardrailPath))
  IN  Resolved(resolveGuardrailManifestPath(tree, m.rootPath, guardrail))

validateGuardrailReferences(m, tree) ==
  LET Each(guardrails) ==
        IF ~isArray(guardrails) THEN <<>>
        ELSE ForEach(SelectSeq(guardrails.a, NonBlankString),
                     LAMBDA g : ValidateGuardrail(m, tree, g.s))
  IN  Each(Get(m.manifestData, "guardrails"))

validateManifest(m, tree) ==
  LET RootAgent(rootAgentValue) ==
        IF ~NonBlankString(rootAgentValue)
        THEN <<Issue("CES_ROOT_AGENT_MISSING",
                     "Manifest must define a non-empty rootAgent",
                     "error", m.manifestPath,
                     findLineContaining(tree, m.manifestPath, {"rootAgent"}))>>
        ELSE validateRootAgentReference(m, tree, rootAgentValue.s)
  IN  IF m.manifestPath = NoPath
      THEN <<Issue("CES_MANIFEST_MISSING", "Package must contain app.yaml or app.json at root",
                   "error", pathJoin(m.rootPath, "app.yaml"), 1)>>
      ELSE When(m.hasAppJson /\ m.hasAppYaml,
                Issue("CES_MANIFEST_BOTH_PRESENT",
                      "Both app.yaml and app.json are present. app.yaml takes precedence.",
                      "warning", m.manifestPath, 1))
           \o When(m.hasAppJson /\ ~m.hasAppYaml,
                   Issue("CES_APP_JSON_ONLY",
                         "app.json is supported by this validator, but Agent Studio import compatibility is typically app.yaml-first.",
                         "warning", m.manifestPath, 1))
           \o (IF Truthy(m.manifestError)
               THEN <<Issue("CES_MANIFEST_PARSE_ERROR",
                            "Manifest parse error: " \o m.manifestError.s,
                            "error", m.manifestPath, 1)>>
               ELSE IF ~isRecord(m.manifestData)
               THEN <<Issue("CES_MANIFEST_INVALID_ROOT", "Manifest root must be an object",
                            "error", m.manifestPath, 1)>>
               ELSE RootAgent(Get(m.manifestData, "rootAgent"))
                    \o validateGlobalInstructionReference(m, tree)
                    \o validateGuardrailReferences(m, tree))

validateUnsupportedDirectories(m, tree) ==
  LET Found(targetFile, line) ==
        Issue("CES_UNSUPPORTED_IMPORT_DIRECTORY",
              "Directory 'evaluationDatasets/' is not supported in CES import packages",
              "error", targetFile, IF line = NoLine THEN 1 ELSE line)
      In(targetFile) ==
        Found(targetFile, findLineContaining(tree, targetFile, {"evaluationDatasets"}))
  IN  When("evaluationDatasets" \in Range(m.topLevelDirs),
           In(IF m.manifestPath # NoPath THEN m.manifestPath
              ELSE pathJoin(m.rootPath, "app.yaml")))

DepthIssue(code, topLevel, depth, limit, filePath) ==
  Issue(code,
        topLevel \o "/ contains file nested " \o ToString(depth)
          \o " levels deep; expected max " \o ToString(limit),
        "warning", filePath, 1)

\* One turn of validateNestingDepth's loop over model.files.
NestingDepthOfFile(m, filePath) ==
  LET Check(topLevel, depth) ==
        IF topLevel \in {"agents", "tools", "examples"} /\ depth > ROOT_DEPTH_LIMIT
        THEN <<DepthIssue("CES_NESTING_DEPTH_EXCEEDED", topLevel, depth, ROOT_DEPTH_LIMIT,
                          filePath)>>
        ELSE IF topLevel = "toolsets" /\ depth > TOOLSET_DEPTH_LIMIT
        THEN <<DepthIssue("CES_TOOLSET_NESTING_DEPTH_EXCEEDED", "toolsets", depth,
                          TOOLSET_DEPTH_LIMIT, filePath)>>
        ELSE When(topLevel = "guardrails" /\ depth > ROOT_DEPTH_LIMIT,
                  DepthIssue("CES_GUARDRAIL_NESTING_DEPTH_EXCEEDED", "guardrails", depth,
                             ROOT_DEPTH_LIMIT, filePath))
      Below(relativePath, segments) ==
        IF Len(segments) < 2 THEN <<>>
        ELSE Check(segments[1], getDepthBelowTopLevel(relativePath))
      Relative(relativePath) ==
        Below(relativePath, SelectSeq(split(relativePath, "/"), LAMBDA seg : Len(seg) > 0))
  IN  Relative(toRelativePath(m.rootPath, filePath))

validateNestingDepth(m, tree) == ForEach(m.files, LAMBDA f : NestingDepthOfFile(m, f))

validateAgentManifest(agentInfo) ==
  When(Truthy(agentInfo.manifestError),
       Issue("CES_AGENT_MANIFEST_INVALID",
             "Agent manifest error for '" \o agentInfo.name \o "': "
               \o agentInfo.manifestError.s,
             "error", agentInfo.manifestPath, 1))

\* The name a toolsets entry of an agent refers to; "" for the code's null.
extractToolsetName(toolsetEntry) ==
  IF isString(toolsetEntry) THEN toolsetEntry.s
  ELSE IF isRecord(toolsetEntry) THEN ToolsetNameOf(toolsetEntry)
  ELSE ""

\* The instruction checks with the existence check made only for a path of the
\* expected form.
InstructionFileCheckedWhenCanonical(m, tree, agentInfo) ==
  LET Declared(expectedInstruction, normalizedInstruction, line) ==
        IF normalizedInstruction # expectedInstruction
        THEN <<Issue("CES_AGENT_INSTRUCTION_PATH_MISMATCH",
                     "Agent '" \o agentInfo.name \o "' instruction should be '"
                       \o expectedInstruction \o "'",
                     "error", agentInfo.manifestPath, line)>>
        ELSE When(~existsSync(tree, ResolveDeclared(m.rootPath, normalizedInstruction)),
                  Issue("CES_AGENT_INSTRUCTION_FILE_MISSING",
                        "Instruction file does not exist: " \o normalizedInstruction,
                        "error", agentInfo.manifestPath, line))
      Check(instruction, line) ==
        IF ~NonBlankString(instruction)
        THEN <<Issue("CES_AGENT_INSTRUCTION_MISSING",
                     "Agent '" \o agentInfo.name \o "' must define instruction path",
                     "error", agentInfo.manifestPath, line)>>
        ELSE Declared("agents/" \o agentInfo.name \o "/instruction.txt",
                      normalizeSeparators(trim(instruction.s)), line)
  IN  Check(Get(agentInfo.manifestData, "instruction"),
            findLineContaining(tree, agentInfo.manifestPath, {"instruction"}))

\* The instruction checks of one agent; line is findLineContaining(manifestPath,
\* "instruction"), which each of the three issues carries.
AgentInstructionIssues(m, tree, agentInfo) ==
  LET Declared(expectedInstruction, normalizedInstruction, line) ==
        When(normalizedInstruction # expectedInstruction,
             Issue("CES_AGENT_INSTRUCTION_PATH_MISMATCH",
                   "Agent '" \o agentInfo.name \o "' instruction should be '"
                     \o expectedInstruction \o "'",
                   "error", agentInfo.manifestPath, line))
        \o When(~existsSync(tree, ResolveDeclared(m.rootPath, normalizedInstruction)),
                Issue("CES_AGENT_INSTRUCTION_FILE_MISSING",
                      "Instruction file does not exist: " \o normalizedInstruction,
                      "error", agentInfo.manifestPath, line))
      Check(instruction, line) ==
        IF ~NonBlankString(instruction)
        THEN <<Issue("CES_AGENT_INSTRUCTION_MISSING",
                     "Agent '" \o agentInfo.name \o "' must define instruction path",
                     "error", agentInfo.manifestPath, line)>>
        ELSE Declared("agents/" \o agentInfo.name \o "/instruction.txt",
                      normalizeSeparators(trim(instruction.s)), line)
  IN  Check(Get(agentInfo.manifestData, "instruction"),
            findLineContaining(tree, agentInfo.manifestPath, {"instruction"}))

AgentChildIssues(m, tree, agentInfo) ==
  LET Each(childAgents, agentNames) ==
        IF ~isArray(childAgents) THEN <<>>
        ELSE ForEach(SelectSeq(childAgents.a, NonBlankString),
                     LAMBDA c :
                       When(c.s \notin agentNames,
                            Issue("CES_CHILD_AGENT_MISSING",
                                  "childAgent '" \o c.s \o "' does not exist under agents/",
                                  "error", agentInfo.manifestPath,
                                  findLineContaining(tree, agentInfo.manifestPath, {c.s}))))
  IN  Each(Get(agentInfo.manifestData, "childAgents"),
           {a.name : a \in Range(m.agentInfos)})

AgentToolsetIssues(m, tree, agentInfo) ==
  LET Reference(toolsetName, toolsetNames) ==
        When(toolsetName # "" /\ toolsetName \notin toolsetNames,
             Issue("CES_AGENT_TOOLSET_REFERENCE_MISSING",
                   "Agent '" \o agentInfo.name
                     \o "' references missing toolset '" \o toolsetName \o "'",
                   "error", agentInfo.manifestPath,
                   findLineContaining(tree, agentInfo.manifestPath, {toolsetName})))
      Each(toolsets, toolsetNames) ==
        IF ~isArray(toolsets) THEN <<>>
        ELSE ForEach(toolsets.a, LAMBDA e : Reference(extractToolsetName(e), toolsetNames))
  IN  Each(Get(agentInfo.manifestData, "toolsets"),
           {ts.name : ts \in Range(m.toolsetInfos)})

validateAgents(m, tree) ==
  ForEach(m.agentInfos,
          LAMBDA agentInfo :
            validateAgentManifest(agentInfo)
            \o (IF ~isRecord(agentInfo.manifestData) THEN <<>>
                ELSE AgentInstructionIssues(m, tree, agentInfo)
                     \o AgentChildIssues(m, tree, agentInfo)
                     \o AgentToolsetIssues(m, tree, agentInfo)))

\* The declared schema path of a toolset manifest; "" for the code's null.
readDeclaredSchemaPath(toolsetManifest) ==
  LET Schema(openApiSchema) == IF isString(openApiSchema) THEN openApiSchema.s ELSE ""
      Declared(openApiToolset) ==
        IF ~isRecord(openApiToolset) THEN ""
        ELSE Schema(Get(openApiToolset, "openApiSchema"))
  IN  IF ~isRecord(toolsetManifest) THEN ""
      ELSE Declared(Get(toolsetManifest, "openApiToolset"))

\* The checks of one toolset once schemaPath is settled.
ToolsetSchemaIssues(tree, toolsetInfo, schemaPath) ==
  LET Check(parsed) ==
        IF Truthy(parsed.error)
        THEN <<Issue("CES_OPENAPI_PARSE_ERROR",
                     "OpenAPI schema parse error: " \o parsed.error.s,
                     "error", schemaPath, 1)>>
        ELSE IF ~isRecord(parsed.data)
        THEN <<Issue("CES_OPENAPI_INVALID_ROOT", "OpenAPI schema root must be an object",
                     "error", schemaPath, 1)>>
        ELSE When(~HasKey(parsed.data, "openapi") /\ ~HasKey(parsed.data, "swagger"),
                  Issue("CES_OPENAPI_VERSION_MISSING",
                        "OpenAPI schema must define either 'openapi' or 'swagger' at top level",
                        "error", schemaPath,
                        findLineContaining(tree, schemaPath, {"openapi", "swagger"})))
  IN  IF ExistsAsDirectory(tree, toolsetInfo.openApiDirPath) /\ schemaPath = NoPath
      THEN <<Issue("CES_OPENAPI_SCHEMA_NOT_FOUND",
                   "Toolset '" \o toolsetInfo.name
                     \o "' has open_api_toolset directory but no schema file",
                   "error", toolsetInfo.manifestPath,
                   findLineContaining(tree, toolsetInfo.manifestPath, {"openApiToolset"}))>>
      ELSE IF schemaPath = NoPath THEN <<>>
      ELSE Check(parseOpenApiFile(tree, schemaPath))

\* The checks of one toolset with the auto-detected file taken where the declared
\* one is missing.
FallBackToAutoDetected(m, tree, toolsetInfo) ==
  LET Settled(normalized, declared, missing) ==
        When(missing,
             Issue("CES_OPENAPI_SCHEMA_MISSING",
                   "Declared OpenAPI schema does not exist: " \o normalized,
                   "error", toolsetInfo.manifestPath,
                   findLineContaining(tree, toolsetInfo.manifestPath, {"openApiSchema"})))
        \o ToolsetSchemaIssues(tree, toolsetInfo,
                               IF missing THEN toolsetInfo.autoDetectedSchemaPath
                               ELSE declared)
      Resolved(normalized, declared) ==
        Settled(normalized, declared, ~existsSync(tree, declared))
      Normalized(normalized) == Resolved(normalized, ResolveDeclared(m.rootPath, normalized))
      Declared(declaredSchemaPath) ==
        IF declaredSchemaPath # "" THEN Normalized(normalizeSeparators(declaredSchemaPath))
        ELSE ToolsetSchemaIssues(tree, toolsetInfo, toolsetInfo.autoDetectedSchemaPath)
  IN  IF Truthy(toolsetInfo.manifestError)
      THEN <<Issue("CES_TOOLSET_MANIFEST_INVALID",
                   "Toolset '" \o toolsetInfo.name \o "' manifest error: "
                     \o toolsetInfo.manifestError.s,
                   "error", toolsetInfo.manifestPath, 1)>>
      ELSE Declared(readDeclaredSchemaPath(toolsetInfo.manifestData))

ValidateToolset(m, tree, toolsetInfo) ==
  LET Settled(normalized, declared, missing) ==
        When(missing,
             Issue("CES_OPENAPI_SCHEMA_MISSING",
                   "Declared OpenAPI schema does not exist: " \o normalized,
                   "error", toolsetInfo.manifestPath,
                   findLineContaining(tree, toolsetInfo.manifestPath, {"openApiSchema"})))
        \o ToolsetSchemaIssues(tree, toolsetInfo, IF missing THEN NoPath ELSE declared)
      Resolved(normalized, declared) ==
        Settled(normalized, declared, ~existsSync(tree, declared))
      Normalized(normalized) == Resolved(normalized, ResolveDeclared(m.rootPath, normalized))
      Declared(declaredSchemaPath) ==
        IF declaredSchemaPath # "" THEN Normalized(normalizeSeparators(declaredSchemaPath))
        ELSE ToolsetSchemaIssues(tree, toolsetInfo, toolsetInfo.autoDetectedSchemaPath)
  IN  IF Truthy(toolsetInfo.manifestError)
      THEN <<Issue("CES_TOOLSET_MANIFEST_INVALID",
                   "Toolset '" \o toolsetInfo.name \o "' manifest error: "
                     \o toolsetInfo.manifestError.s,
                   "error", toolsetInfo.manifestPath, 1)>>
      ELSE Declared(readDeclaredSchemaPath(toolsetInfo.manifestData))

validateToolsets(m, tree) ==
  ForEach(m.toolsetInfos, LAMBDA toolsetInfo : ValidateToolset(m, tree, toolsetInfo))

\* The test on the string values of the top-level fields only.
LocalhostAtTopLevelOnly(value) ==
  /\ isRecord(value)
  /\ \E i \in 1..Len(value.o) :
       /\ isString(value.o[i].v)
       /\ \/ includes(toLowerCase(value.o[i].v.s), "localhost")
          \/ includes(value.o[i].v.s, "127.0.0.1")

\* /localhost|127\.0\.0\.1/i.test(value), through strings, arrays and record values.
RECURSIVE containsLocalhostReference(_)
containsLocalhostReference(value) ==
  IF isString(value)
  THEN includes(toLowerCase(value.s), "localhost") \/ includes(value.s, "127.0.0.1")
  ELSE IF isArray(value)
  THEN \E i \in 1..Len(value.a) : containsLocalhostReference(value.a[i])
  ELSE IF isRecord(value)
  THEN \E i \in 1..Len(value.o) : containsLocalhostReference(value.o[i].v)
  ELSE FALSE

\* One turn of the loop over Object.entries(toolsets).
EnvironmentToolsetEntry(m, tree, toolsetName, value) ==
  LET Url(filePath, url) ==
        When(url # Undefined /\ ~isString(url),
             Issue("CES_ENVIRONMENT_OPENAPI_URL_INVALID",
                   "environment.json toolsets." \o toolsetName
                     \o ".openApiToolset.url must be a string",
                   "error", filePath, findLineContaining(tree, filePath, {"url"})))
      Entry2(filePath, openApiToolset) ==
        IF openApiToolset # Undefined /\ ~isRecord(openApiToolset)
        THEN <<Issue("CES_ENVIRONMENT_OPENAPI_TOOLSET_INVALID",
                     "environment.json toolsets." \o toolsetName
                       \o ".openApiToolset must be an object",
                     "error", filePath, findLineContaining(tree, filePath, {"openApiToolset"}))>>
        ELSE IF isRecord(openApiToolset) THEN Url(filePath, Get(openApiToolset, "url"))
        ELSE <<>>
      In(filePath) ==
        IF ~isRecord(value)
        THEN <<Issue("CES_ENVIRONMENT_TOOLSET_ENTRY_INVALID",
                     "environment.json toolsets." \o toolsetName \o " must be an object",
                     "error", filePath, findLineContaining(tree, filePath, {toolsetName}))>>
        ELSE Entry2(filePath, Get(value, "openApiToolset"))
  IN  In(m.environment.filePath)

LocalhostWarning(m) ==
  When(containsLocalhostReference(m.environment.data),
       Issue("CES_ENVIRONMENT_LOCALHOST_WARNING",
             "environment.json contains localhost or 127.0.0.1 URLs; use deployed endpoints before import",
             "warning", m.environment.filePath, 1))

validateEnvironment(m, tree) ==
  LET Toolsets(env, toolsets) ==
        IF ~isRecord(toolsets)
        THEN <<Issue("CES_ENVIRONMENT_TOOLSETS_INVALID",
                     "environment.json must contain a 'toolsets' object",
                     "error", env.filePath,
                     findLineContaining(tree, env.filePath, {"toolsets"}))>>
        ELSE ForEach(toolsets.o, LAMBDA kv : EnvironmentToolsetEntry(m, tree, kv.k, kv.v))
      Check(env) ==
        IF env = NoEnvironment THEN <<>>
        ELSE IF Truthy(env.error)
        THEN <<Issue("CES_ENVIRONMENT_PARSE_ERROR",
                     "environment.json parse error: " \o env.error.s,
                     "error", env.filePath, 1)>>
        ELSE IF ~isRecord(env.data)
        THEN <<Issue("CES_ENVIRONMENT_INVALID_ROOT", "environment.json root must be an object",
                     "error", env.filePath, 1)>>
        ELSE Toolsets(env, Get(env.data, "toolsets")) \o LocalhostWarning(m)
  IN  Check(m.environment)

\* step.expectation.toolCall.tool of a step, Undefined where a link of the chain is
\* no record (the loop's continue).
ToolOfStep(step) ==
  LET OfCall(toolCall) == IF ~isRecord(toolCall) THEN Undefined ELSE Get(toolCall, "tool")
      OfExpectation(expectation) ==
        IF ~isRecord(expectation) THEN Undefined ELSE OfCall(Get(expectation, "toolCall"))
  IN  IF ~isRecord(step) THEN Undefined ELSE OfExpectation(Get(step, "expectation"))

\* The tool names of the toolCall expectations of one turn, in step order.
TurnToolNames(turn) ==
  LET Named(steps) ==
        IF ~isArray(steps) THEN <<>>
        ELSE MapSeq(SelectSeq(MapSeq(steps.a, ToolOfStep), NonBlankString),
                    LAMBDA toolName : toolName.s)
  IN  IF ~isRecord(turn) THEN <<>> ELSE Named(Get(turn, "steps"))

\* The second test without its first half: a name outside the inventory is unknown
\* even when the inventory is empty.
ToolCallUnknownWithoutInventory(m, tree, evalInfo, turnNumber, toolName) ==
  IF toolName \in m.openApiOperations
  THEN <<Issue("CES_EVALUATION_TOOLCALL_OPENAPI_OPERATION",
               "Evaluation '" \o evalInfo.name \o "' turn " \o ToString(turnNumber)
                 \o ": toolCall '" \o toolName
                 \o "' is an OpenAPI operation, not a direct tool. CES will reject this. (Learning L-01)",
               "error", evalInfo.manifestPath,
               findLineContaining(tree, evalInfo.manifestPath, {toolName}))>>
  ELSE When(toolName \notin m.directTools,
            Issue("CES_EVALUATION_TOOLCALL_UNKNOWN",
                  "Evaluation '" \o evalInfo.name \o "' turn " \o ToString(turnNumber)
                    \o ": toolCall '" \o toolName
                    \o "' not found in any agent's tools list. Known tools: ["
                    \o join(SortedSet(m.directTools), ", ") \o "]",
                  "error", evalInfo.manifestPath,
                  findLineContaining(tree, evalInfo.manifestPath, {toolName})))

\* The two tests taken in the other order: the direct tool inventory first.
ToolCallDirectFirst(m, tree, evalInfo, turnNumber, toolName) ==
  IF m.directTools # {} /\ toolName \notin m.directTools
  THEN <<Issue("CES_EVALUATION_TOOLCALL_UNKNOWN",
               "Evaluation '" \o evalInfo.name \o "' turn " \o ToString(turnNumber)
                 \o ": toolCall '" \o toolName
                 \o "' not found in any agent's tools list. Known tools: ["
                 \o join(SortedSet(m.directTools), ", ") \o "]",
               "error", evalInfo.manifestPath,
               findLineContaining(tree, evalInfo.manifestPath, {toolName}))>>
  ELSE When(toolName \in m.openApiOperations,
            Issue("CES_EVALUATION_TOOLCALL_OPENAPI_OPERATION",
                  "Evaluation '" \o evalInfo.name \o "' turn " \o ToString(turnNumber)
                    \o ": toolCall '" \o toolName
                    \o "' is an OpenAPI operation, not a direct tool. CES will reject this. (Learning L-01)",
                  "error", evalInfo.manifestPath,
                  findLineContaining(tree, evalInfo.manifestPath, {toolName})))

\* The if / else-if on one toolCall expectation.
ToolCallExpectation(m, tree, evalInfo, turnNumber, toolName) ==
  IF toolName \in m.openApiOperations
  THEN <<Issue("CES_EVALUATION_TOOLCALL_OPENAPI_OPERATION",
               "Evaluation '" \o evalInfo.name \o "' turn " \o ToString(turnNumber)
                 \o ": toolCall '" \o toolName
                 \o "' is an OpenAPI operation, not a direct tool. CES will reject this. (Learning L-01)",
               "error", evalInfo.manifestPath,
               findLineContaining(tree, evalInfo.manifestPath, {toolName}))>>
  ELSE When(m.directTools # {} /\ toolName \notin m.directTools,
            Issue("CES_EVALUATION_TOOLCALL_UNKNOWN",
                  "Evaluation '" \o evalInfo.name \o "' turn " \o ToString(turnNumber)
                    \o ": toolCall '" \o toolName
                    \o "' not found in any agent's tools list. Known tools: ["
                    \o join(SortedSet(m.directTools), ", ") \o "]",
                  "error", evalInfo.manifestPath,
                  findLineContaining(tree, evalInfo.manifestPath, {toolName})))

EvaluationTurnIssues(m, tree, evalInfo) ==
  LET Turns(turns) ==
        IF ~isArray(turns) THEN <<>>
        ELSE Flatten([turnIdx \in 1..Len(turns.a) |->
                        ForEach(TurnToolNames(turns.a[turnIdx]),
                                LAMBDA toolName :
                                  ToolCallExpectation(m, tree, evalInfo, turnIdx, toolName))])
      Golden(golden) == IF ~isRecord(golden) THEN <<>> ELSE Turns(Get(golden, "turns"))
  IN  Golden(Get(evalInfo.manifestData, "golden"))

ValidateEvaluation(m, tree, evalInfo) ==
  LET Named(displayName) ==
        When(isString(displayName) /\ displayName.s # evalInfo.name,
             Issue("CES_EVALUATION_DISPLAYNAME_MISMATCH",
                   "Evaluation displayName '" \o displayName.s
                     \o "' differs from folder name '" \o evalInfo.name \o "'",
                   "warning", evalInfo.manifestPath,
                   findLineContaining(tree, evalInfo.manifestPath, {"displayName"})))
  IN  IF Truthy(evalInfo.manifestError)
      THEN <<Issue("CES_EVALUATION_MANIFEST_INVALID",
                   "Evaluation '" \o evalInfo.name \o "' manifest error: "
                     \o evalInfo.manifestError.s,
                   "error", evalInfo.manifestPath, 1)>>
      ELSE IF ~isRecord(evalInfo.manifestData) THEN <<>>
      ELSE Named(Get(evalInfo.manifestData, "displayName"))
           \o EvaluationTurnIssues(m, tree, evalInfo)

validateEvaluations(m, tree) ==
  ForEach(m.evaluationInfos, LAMBDA evalInfo : ValidateEvaluation(m, tree, evalInfo))

InstructionParseIssue(info) ==
  When(Truthy(info.parseError),
       Issue("CES_INSTRUCTION_PARSE_ERROR",
             "Instruction parse error for '" \o info.agentName \o "': " \o info.parseError.s,
             "error", info.filePath, 1))

InstructionSectionIssues(info) ==
  LET Missing(sectionNames) ==
        ForEach(REQUIRED_SECTIONS,
                LAMBDA required :
                  When(required \notin sectionNames,
                       Issue("CES_INSTRUCTION_MISSING_SECTION",
                             "Instruction for '" \o info.agentName
                               \o "' is missing required <" \o required \o "> section",
                             "warning", info.filePath, 1)))
  IN  Missing({s.name : s \in Range(info.sections)})

\* The reference checks with the tool references held against the inventory even
\* when it is empty.
ToolReferencesAlwaysChecked(m, info) ==
  LET Each(agentNames) ==
        ForEach(info.references,
                LAMBDA ref :
                  When(ref.type = "agent" /\ ref.name \notin agentNames,
                       Issue("CES_INSTRUCTION_AGENT_REF_UNKNOWN",
                             "Instruction for '" \o info.agentName
                               \o "' references unknown agent '" \o ref.name
                               \o "' at line " \o ToString(ref.line),
                             "error", info.filePath, ref.line)))
        \o ForEach(info.references,
                   LAMBDA ref :
                     When(ref.type = "tool" /\ ref.name \notin m.directTools,
                          Issue("CES_INSTRUCTION_TOOL_REF_UNKNOWN",
                                "Instruction for '" \o info.agentName
                                  \o "' references unknown tool '" \o ref.name
                                  \o "' at line " \o ToString(ref.line),
                                "warning", info.filePath, ref.line)))
  IN  Each({a.name : a \in Range(m.agentInfos)})

InstructionReferenceIssues(m, info) ==
  LET Each(agentNames) ==
        ForEach(info.references,
                LAMBDA ref :
                  When(ref.type = "agent" /\ ref.name \notin agentNames,
                       Issue("CES_INSTRUCTION_AGENT_REF_UNKNOWN",
                             "Instruction for '" \o info.agentName
                               \o "' references unknown agent '" \o ref.name
                               \o "' at line " \o ToString(ref.line),
                             "error", info.filePath, ref.line)))
        \o ForEach(info.references,
                   LAMBDA ref :
                     When(ref.type = "tool" /\ m.directTools # {}
                            /\ ref.name \notin m.directTools,
                          Issue("CES_INSTRUCTION_TOOL_REF_UNKNOWN",
                                "Instruction for '" \o info.agentName
                                  \o "' references unknown tool '" \o ref.name
                                  \o "' at line " \o ToString(ref.line),
                                "warning", info.filePath, ref.line)))
  IN  Each({a.name : a \in Range(m.agentInfos)})

\* The check of a call with the direct-tool test made for a qualified operation of a
\* known toolset as well.
ToolCallCheckedBothWays(m, info, call) ==
  LET Check(toolsetName, opName, toolsetNames) ==
        IF toolsetName # "" /\ toolsetName \notin toolsetNames
        THEN <<Issue("CES_INSTRUCTION_TOOLCALL_UNKNOWN_TOOLSET",
                     "Instruction for '" \o info.agentName \o "': tool_call '"
                       \o call.operation \o "' references unknown toolset '"
                       \o toolsetName \o "' at line " \o ToString(call.line),
                     "warning", info.filePath, call.line)>>
        ELSE When(opName # "" /\ m.directTools # {} /\ opName \notin m.directTools,
                  Issue("CES_INSTRUCTION_TOOLCALL_UNKNOWN_TOOL",
                        "Instruction for '" \o info.agentName \o "': tool_call '"
                          \o call.operation \o "' is not a known direct tool at line "
                          \o ToString(call.line),
                        "warning", info.filePath, call.line))
      Split(parts) ==
        Check(IF Len(parts) > 1 THEN parts[1] ELSE "",
              IF Len(parts) > 1 THEN parts[2] ELSE parts[1],
              {ts.name : ts \in Range(m.toolsetInfos)})
  IN  Split(split(call.operation, "."))

InstructionToolCallIssue(m, info, call) ==
  LET Check(toolsetName, opName, toolsetNames) ==
        IF toolsetName # ""
        THEN When(toolsetName \notin toolsetNames,
                  Issue("CES_INSTRUCTION_TOOLCALL_UNKNOWN_TOOLSET",
                        "Instruction for '" \o info.agentName \o "': tool_call '"
                          \o call.operation \o "' references unknown toolset '"
                          \o toolsetName \o "' at line " \o ToString(call.line),
                        "warning", info.filePath, call.line))
        ELSE When(opName # "" /\ m.directTools # {} /\ opName \notin m.directTools,
                  Issue("CES_INSTRUCTION_TOOLCALL_UNKNOWN_TOOL",
                        "Instruction for '" \o info.agentName \o "': tool_call '"
                          \o call.operation \o "' is not a known direct tool at line "
                          \o ToString(call.line),
                        "warning", info.filePath, call.line))
      Split(parts) ==
        Check(IF Len(parts) > 1 THEN parts[1] ELSE "",
              IF Len(parts) > 1 THEN parts[2] ELSE parts[1],
              {ts.name : ts \in Range(m.toolsetInfos)})
  IN  Split(split(call.operation, "."))

validateInstructions(m, tree) ==
  ForEach(m.instructionInfos,
          LAMBDA info :
            IF info.agentName = GLOBAL_SENTINEL THEN <<>>
            ELSE InstructionParseIssue(info)
                 \o InstructionSectionIssues(info)
                 \o InstructionReferenceIssues(m, info)
                 \o ForEach(info.toolCalls,
                            LAMBDA call : InstructionToolCallIssue(m, info, call)))

LineAsPushed(line) == line

\* left.line ?? 1
LineOrOne(line) == IF line = NoLine THEN 1 ELSE line

\* The comparator of the final sort: file, then line, then code.
CompareIssues(left, right) ==
  LET ByLine(lineCompare) ==
        IF lineCompare # 0 THEN lineCompare ELSE localeCompare(left.code, right.code)
      ByFile(fileCompare) ==
        IF fileCompare # 0 THEN fileCompare
        ELSE ByLine(LineOrOne(left.line) - LineOrOne(right.line))
  IN  ByFile(localeCompare(left.file, right.file))

\* The issues in the order the eight rule groups push them.
PushedIssues(m, tree) ==
  validateManifest(m, tree)
  \o validateUnsupportedDirectories(m, tree)
  \o validateNestingDepth(m, tree)
  \o validateAgents(m, tree)
  \o validateToolsets(m, tree)
  \o validateEvaluations(m, tree)
  \o validateInstructions(m, tree)
  \o validateEnvironment(m, tree)

\* issues.sort((left, right) => ...)
SortIssues(pushed) == SortStable(pushed, CompareIssues)

runRules(m, tree) == SortIssues(PushedIssues(m, tree))

(***************************************************************************)
(* Trees.  The package the rules accept without an issue (the fixture of   *)
(* the rule tests), and the writes that turn one tree into another.        *)
(***************************************************************************)
Segs(relativePath) == split(relativePath, "/")

\* The directory with the entry of that name replaced, or added at the end.
SetEntry(dir, name, node) ==
  IF \E i \in 1..Len(dir.entries) : dir.entries[i].name = name
  THEN Dir([i \in 1..Len(dir.entries) |->
              IF dir.entries[i].name = name THEN Entry(name, node) ELSE dir.entries[i]])
  ELSE Dir(Append(dir.entries, Entry(name, node)))

\* writeFileSync / mkdirSync(recursive): the node at the path, parents created.
RECURSIVE PutAt(_, _, _)
PutAt(dir, segs, node) ==
  IF Len(segs) = 1 THEN SetEntry(dir, segs[1], node)
  ELSE LET child == Child(dir, segs[1])
           sub == IF child.kind = "dir" THEN child ELSE Dir(<<>>)
       IN  SetEntry(dir, segs[1], PutAt(sub, Tail(segs), node))

Put(tree, relativePath, node) == PutAt(tree, Segs(relativePath), node)

\* rmSync(recursive): the tree without the node at the path.
RECURSIVE RemoveAt2(_, _)
RemoveAt2(dir, segs) ==
  IF Len(segs) = 1
  THEN Dir(SelectSeq(dir.entries, LAMBDA e : e.name # segs[1]))
  ELSE IF Child(dir, segs[1]).kind # "dir" THEN dir
  ELSE SetEntry(dir, segs[1], RemoveAt2(Child(dir, segs[1]), Tail(segs)))

Remove(tree, relativePath) == RemoveAt2(tree, Segs(relativePath))

\* The root manifest; a field given as Undefined is left out.
AppManifest(rootAgent, globalInstruction, guardrails) ==
  JObj(SelectSeq(<<KV("displayName", JStr("sample_agent")),
                   KV("rootAgent", rootAgent),
                   KV("globalInstruction", globalInstruction),
                   KV("guardrails", guardrails)>>,
                 LAMBDA kv : kv.v # Undefined))

BaseApp ==
  AppManifest(JStr("voice_banking_agent"), JStr("global_instruction.txt"), JArr(<<>>))

AgentManifest(name, instruction, more) ==
  JObj(<<KV("displayName", JStr(name)), KV("instruction", instruction)>> \o more)

InstructionPathOf(name) == JStr("agents/" \o name \o "/instruction.txt")

RootAgentDoc ==
  AgentManifest("voice_banking_agent", InstructionPathOf("voice_banking_agent"),
                <<KV("childAgents", JArr(<<JStr("location_services_agent")>>))>>)

ChildAgentDoc ==
  AgentManifest("location_services_agent", InstructionPathOf("location_services_agent"),
                <<KV("toolsets", JArr(<<JObj(<<KV("toolset", JStr("location"))>>)>>))>>)

ToolsetDoc ==
  JObj(<<KV("displayName", JStr("location")),
         KV("openApiToolset",
            JObj(<<KV("openApiSchema",
                      JStr("toolsets/location/open_api_toolset/open_api_schema.yaml"))>>))>>)

SchemaDoc ==
  JObj(<<KV("openapi", JStr("3.0.0")),
         KV("info", JObj(<<KV("title", JStr("Location API")), KV("version", JStr("1.0.0"))>>)),
         KV("paths", JObj(<<>>))>>)

SchemaFile ==
  File(<<"openapi: 3.0.0", "info:", "  title: Location API", "  version: 1.0.0",
         "paths: {}", "">>, NotJson, ParseOk(SchemaDoc))

EnvironmentDoc(url) ==
  JObj(<<KV("toolsets",
            JObj(<<KV("location", JObj(<<KV("openApiToolset", 
                                            JObj(<<KV("url", url)>>))>>))>>))>>)

RoleOnly(text) == <<"<role>", text, "</role>">>

BaseFixture ==
  Dir(<<Entry("app.yaml", YamlFile(BaseApp)),
        Entry("global_instruction.txt", TextFile(<<"Global instruction text for package.">>)),
        Entry("agents",
              Dir(<<Entry("voice_banking_agent",
                          Dir(<<Entry("voice_banking_agent.json", JsonFile(RootAgentDoc)),
                                Entry("instruction.txt",
                                      TextFile(RoleOnly("Root agent instruction")))>>)),
                    Entry("location_services_agent",
                          Dir(<<Entry("location_services_agent.json", JsonFile(ChildAgentDoc)),
                                Entry("instruction.txt",
                                      TextFile(RoleOnly("Child agent instruction")))>>))>>)),
        Entry("toolsets",
              Dir(<<Entry("location",
                          Dir(<<Entry("location.json", JsonFile(ToolsetDoc)),
                                Entry("open_api_toolset",
                                      Dir(<<Entry("open_api_schema.yaml", SchemaFile)>>))>>))>>)),
        Entry("environment.json", JsonFile(EnvironmentDoc(JStr("https://api.example.com"))))>>)

(***************************************************************************)
(* The validation pass (ValidationOrchestrator.validatePackageRoot): build *)
(* the model, run the rules, store the issues; an exception that escapes   *)
(* is stored as one CES_VALIDATOR_RUNTIME_ERROR issue.  A pass is pending  *)
(* from the activation of the extension and after every edit of the tree.  *)
(***************************************************************************)
MaxPasses == 3

NoResult == [called |-> FALSE]

\* No workspace is open: the orchestrator knows no root and holds no issues.
\* No call of the orchestrator since the last edit.
NoCall == [kind |-> "none", root |-> "", escaped |-> FALSE, before |-> <<>>]

NoWorkspace == [trees |-> <<>>, packageIssues |-> <<>>, call |-> NoCall]

RuntimeErrorIssue(message) ==
  Issue("CES_VALIDATOR_RUNTIME_ERROR", message, "error", pathJoin(rootPath, "app.yaml"), 1)

\* What a pass leaves behind when it ends with the given outcome.
EndPass(outcome, m, pushed, stored) ==
  /\ pc' = outcome
  /\ model' = m
  /\ appended' = pushed
  /\ issues' = stored
  /\ passes' = passes + 1
  /\ IF passes = 0
     THEN firstFs' = fs /\ firstModel' = m /\ firstIssues' = stored
     ELSE UNCHANGED <<firstFs, firstModel, firstIssues>>

\* try { model = buildPackageModel(rootPath); issues = runRules(model);
\*       packageIssues.set(rootPath, issues) } catch (error) { ... }
validatePackageRoot ==
  /\ pc = "pending"
  /\ LET Ran(m, pushed) == EndPass("done", m, pushed, SortIssues(pushed))
         Built(m) == Ran(m, PushedIssues(m, fs))
         Try(exception) ==
           IF exception # NoException
           THEN EndPass("failed", NotBuilt, <<>>, <<RuntimeErrorIssue(exception)>>)
           ELSE Built(buildPackageModel(fs, rootPath))
     IN  Try(BuildException(fs, rootPath))
  /\ UNCHANGED <<fs, result, orchestrator>>

PassEnded == pc \in {"done", "failed"}

\* An edit of the package, or the validate command: the next pass is pending.
StartPass(tree) ==
  /\ PassEnded
  /\ passes < MaxPasses
  /\ fs' = tree
  /\ pc' = "pending"
  /\ UNCHANGED <<model, appended, issues, passes, firstFs, firstModel, firstIssues, result,
                 orchestrator>>

\* Revalidation of the unchanged tree.
Revalidate == StartPass(fs)

\* The user creates or deletes the script tool folder tools/lookup.
ToggleScriptTool ==
  StartPass(IF existsSync(fs, pathJoin(rootPath, "tools/lookup"))
            THEN Remove(fs, "tools")
            ELSE Put(fs, "tools/lookup", Dir(<<>>)))

\* The rootAgent the manifest read by the last pass declares, "" when it declares none.
DeclaredRootAgent(m) ==
  LET Declared(rootAgent) == IF NonBlankString(rootAgent) THEN rootAgent.s ELSE ""
  IN  IF m.built /\ isRecord(m.manifestData) THEN Declared(Get(m.manifestData, "rootAgent"))
      ELSE ""

\* The user creates the folder of the declared root agent.
MakeRootAgentDirectory ==
  LET Make(rootAgent) ==
        /\ rootAgent # ""
        /\ ~ExistsAsDirectory(fs, pathJoin(rootPath, "agents/" \o rootAgent))
        /\ StartPass(Put(fs, "agents/" \o rootAgent, Dir(<<>>)))
  IN  Make(DeclaredRootAgent(model))

\* The state after the extension is activated: the first pass is pending.
Fresh(tree) ==
  /\ fs = tree
  /\ model = NotBuilt
  /\ appended = <<>>
  /\ issues = <<>>
  /\ pc = "pending"
  /\ passes = 0
  /\ firstFs = tree
  /\ firstModel = NotBuilt
  /\ firstIssues = <<>>
  /\ result = NoResult
  /\ orchestrator = NoWorkspace

(***************************************************************************)
(* The packages the passes start from: the accepted fixture with one of    *)
(* the root agent declarations and one of the defects below.               *)
(***************************************************************************)
RootAgentChoices ==
  <<JStr("voice_banking_agent"), JStr("missing_root_agent"), Undefined, JStr("  ")>>

WithRootAgent(tree, rootAgent) ==
  Put(tree, "app.yaml",
      YamlFile(AppManifest(rootAgent, JStr("global_instruction.txt"), JArr(<<>>))))

ToolCallStep(tool) ==
  JObj(<<KV("expectation", JObj(<<KV("toolCall", JObj(<<KV("tool", tool)>>))>>))>>)

Turn(steps) == JObj(<<KV("steps", JArr(steps))>>)

EvaluationDoc(displayName, turns) ==
  JObj(<<KV("displayName", JStr(displayName)),
         KV("golden", JObj(<<KV("turns", JArr(turns))>>))>>)

VoiceInstruction == "agents/voice_banking_agent/instruction.txt"

LocationManifest == "agents/location_services_agent/location_services_agent.json"

\* One defect each, made on the accepted fixture.
DefectsOf(base) ==
  <<base,
    Put(base, "app.json", JsonFile(BaseApp)),
    Put(base, "evaluationDatasets/set.json", JsonFile(JObj(<<>>))),
    Remove(base, LocationManifest),
    Put(base, LocationManifest, MalformedFile),
    Put(base, LocationManifest, JsonFile(JArr(<<JStr("x")>>))),
    Remove(base, "toolsets/location/location.json"),
    Put(base, "toolsets/location/location.json", MalformedFile),
    Put(base, "evaluations/smoke", Dir(<<>>)),
    Put(base, "evaluations/smoke/smoke.json", Unreadable(JsonFile(JObj(<<>>)))),
    Put(base, "evaluations/smoke/smoke.json",
        JsonFile(EvaluationDoc("smoke_test",
                               <<Turn(<<ToolCallStep(JStr("end_session"))>>),
                                 Turn(<<ToolCallStep(JStr("end_session"))>>)>>))),
    Put(base, VoiceInstruction, Unreadable(TextFile(RoleOnly("Root agent instruction")))),
    Put(base, "agents/location_services_agent/instruction.txt", Dir(<<>>)),
    Put(base, VoiceInstruction,
        TextFile(<<"<role>", "Root agent", "</role>", "<persona>", "Friendly">>)),
    Put(base, VoiceInstruction,
        TextFile(<<"<role>", "Ask {@AGENT: ghost_agent} or use {@TOOL: lookup}.", "</role>",
                   "<examples>", "billing.getInvoice(id)", "</examples>">>)),
    Put(base, "environment.json",
        JsonFile(JObj(<<KV("toolsets", JObj(<<KV("location", JStr("none"))>>))>>))),
    Put(base, "environment.json",
        JsonFile(JObj(<<KV("toolsets",
                           JObj(<<KV("location",
                                     JObj(<<KV("openApiToolset", JStr("none"))>>))>>))>>))),
    Put(base, "environment.json", JsonFile(EnvironmentDoc(JStr("http://localhost:8080")))),
    Put(base, "environment.json", MalformedFile),
    Put(base, "agents/voice_banking_agent/docs/notes/readme.txt", TextFile(<<"notes">>)),
    Put(base, "agents/voice_banking_agent/voice_banking_agent.json",
        JsonFile(AgentManifest("voice_banking_agent", InstructionPathOf("voice_banking_agent"),
                               <<KV("childAgents",
                                    JArr(<<JStr("ghost_agent_2"), JStr("ghost_agent")>>))>>))),
    Put(base, "global_instruction.txt", UnreadableFile),
    Remove(base, "global_instruction.txt"),
    Put(Put(base, "agents/__global__/__global__.json",
            JsonFile(AgentManifest("__global__", InstructionPathOf("__global__"), <<>>))),
        "agents/__global__/instruction.txt", Unreadable(TextFile(RoleOnly("Sentinel")))),
    Put(base, "examples", UnreadableDir),
    Remove(base, "toolsets/location/open_api_toolset/open_api_schema.yaml"),
    Put(Put(base, LocationManifest, MalformedFile),
        "toolsets/location/location.json", MalformedFile),
    Remove(base, "app.yaml"),
    Put(base, VoiceInstruction,
        TextFile(<<"<role>", "Root agent", "</role>",
                   "<examples>", "billing.getInvoice(id)", "</examples>">>))>>

Defects == DefectsOf(BaseFixture)

\* The tree with the given rootAgent declaration, where it has an app.yaml.
Declaring(tree, rootAgent) ==
  IF existsSync(tree, pathJoin(rootPath, "app.yaml")) THEN WithRootAgent(tree, rootAgent)
  ELSE tree

Init ==
  \E r \in 1..Len(RootAgentChoices), d \in 1..Len(Defects) :
    Fresh(Declaring(Defects[d], RootAgentChoices[r]))

Next ==
  \/ validatePackageRoot
  \/ Revalidate
  \/ ToggleScriptTool
  \/ MakeRootAgentDirectory

Spec == Init /\ [][Next]_vars

(***************************************************************************)
(* The order of the returned issues.                                       *)
(***************************************************************************)
C1_Line(issue) == IF issue.line = NoLine THEN 1 ELSE issue.line

C1_SameKey(a, b) ==
  /\ localeCompare(a.file, b.file) = 0
  /\ C1_Line(a) = C1_Line(b)
  /\ localeCompare(a.code, b.code) = 0

\* a does not come after b in the order on (file, line, code).
C1_NotAfter(a, b) ==
  \/ localeCompare(a.file, b.file) < 0
  \/ /\ localeCompare(a.file, b.file) = 0
     /\ \/ C1_Line(a) < C1_Line(b)
        \/ C1_Line(a) = C1_Line(b) /\ localeCompare(a.code, b.code) <= 0

C1_Tied(seq, issue) == SelectSeq(seq, LAMBDA other : C1_SameKey(other, issue))

\* C1: the list a pass returns holds the issues the rule groups appended, ordered
\* non-decreasingly by (file, line with a missing line counted as 1, code), and the
\* issues that tie on all three keys are in the order in which they were appended.
C1_SortedStable ==
  pc = "done" =>
    /\ Len(issues) = Len(appended)
    /\ \A i \in 1..(Len(issues) - 1) : C1_NotAfter(issues[i], issues[i + 1])
    /\ \A i \in 1..Len(appended) :
         C1_Tied(issues, appended[i]) = C1_Tied(appended, appended[i])

\* A pass whose sort moved issues, with an issue that has no line and two different
\* issues that tie on all three keys.
C1_Witness ==
  /\ pc = "done"
  /\ issues # appended
  /\ \E i \in 1..Len(issues) : issues[i].line = NoLine
  /\ \E i, j \in 1..Len(issues) :
       i < j /\ issues[i] # issues[j] /\ C1_SameKey(issues[i], issues[j])

(***************************************************************************)
(* Packages with an evaluation: the accepted fixture with a tools list on  *)
(* the root agent, toolIds on the toolset manifest and on the toolsets     *)
(* entry of the child agent, and the evaluation smoke_test whose turns     *)
(* each hold a step without expectation and a toolCall expectation.        *)
(***************************************************************************)
MaxTurns == 2

ToolNameChoices == <<JStr("lookup"), JStr("get_branches"), JStr("end_session"), JStr(" ")>>

DirectToolChoices == << <<>>, <<"lookup">>, <<"get_branches">>, <<"lookup", "get_branches">> >>

\* The toolIds of the toolset manifest and those of the agent's toolsets entry.
OperationChoices ==
  << << <<>>, <<>> >>, << <<"lookup">>, <<>> >>, << <<>>, <<"get_branches">> >>,
     << <<"lookup">>, <<"get_branches">> >> >>

Strings(names) == JArr(MapSeq(names, JStr))

EvaluationPackage(tools, toolsetIds, agentIds, turns) ==
  LET WithTools(tree) ==
        Put(tree, "agents/voice_banking_agent/voice_banking_agent.json",
            JsonFile(AgentManifest("voice_banking_agent",
                                   InstructionPathOf("voice_banking_agent"),
                                   <<KV("childAgents", Strings(<<"location_services_agent">>)),
                                     KV("tools", Strings(tools))>>)))
      WithToolsetIds(tree) ==
        Put(tree, "toolsets/location/location.json",
            JsonFile(JObj(ToolsetDoc.o \o <<KV("toolIds", Strings(toolsetIds))>>)))
      WithAgentIds(tree) ==
        Put(tree, LocationManifest,
            JsonFile(AgentManifest("location_services_agent",
                                   InstructionPathOf("location_services_agent"),
                                   <<KV("toolsets",
                                        JArr(<<JObj(<<KV("toolset", JStr("location")),
                                                      KV("toolIds", Strings(agentIds))>>)>>))>>)))
      WithEvaluation(tree) ==
        Put(tree, "evaluations/smoke_test/smoke_test.json",
            JsonFile(EvaluationDoc("smoke_test",
                                   MapSeq(turns,
                                          LAMBDA tool :
                                            Turn(<<JObj(<<KV("userInput", JStr("hello"))>>),
                                                   ToolCallStep(tool)>>)))))
  IN  WithEvaluation(WithAgentIds(WithToolsetIds(WithTools(BaseFixture))))

InitEvaluations ==
  \E t \in 1..Len(DirectToolChoices), o \in 1..Len(OperationChoices), n \in 1..MaxTurns :
    \E choice \in [1..n -> 1..Len(ToolNameChoices)] :
      Fresh(EvaluationPackage(DirectToolChoices[t], OperationChoices[o][1],
                              OperationChoices[o][2],
                              [i \in 1..n |-> ToolNameChoices[choice[i]]]))

SpecEvaluations == InitEvaluations /\ [][validatePackageRoot]_vars

\* The <<turn number, tool name>> pairs of the non-empty string values at
\* golden.turns[].steps[].expectation.toolCall.tool of an evaluation document.
C2_At(doc, key) == IF isRecord(doc) THEN Get(doc, key) ELSE Undefined

C2_Items(doc) == IF isArray(doc) THEN doc.a ELSE <<>>

C2_ToolNames(doc) ==
  LET turns == C2_Items(C2_At(C2_At(doc, "golden"), "turns"))
      ToolAt(step) == C2_At(C2_At(C2_At(step, "expectation"), "toolCall"), "tool")
  IN  {<<t, ToolAt(step).s>> :
         <<t, step>> \in {<<t, step>> \in UNION {{<<t, s>> : s \in Range(C2_Items(C2_At(turns[t], "steps")))}
                                                  : t \in 1..Len(turns)} :
                            isString(ToolAt(step)) /\ ToolAt(step).s # ""}}

\* The issues with the given code that a pass stored for the toolCall of the given
\* turn of the evaluation.
C2_Emitted(code, evalInfo, turn, toolName) ==
  {i \in 1..Len(issues) :
     /\ issues[i].code = code
     /\ issues[i].file = evalInfo.manifestPath
     /\ includes(issues[i].message,
                 "'" \o evalInfo.name \o "' turn " \o ToString(turn)
                   \o ": toolCall '" \o toolName \o "'")}

\* C2: for every non-empty string tool name of a toolCall expectation of an
\* evaluation, if the name is an OpenAPI operation of the model then the pass emits
\* CES_EVALUATION_TOOLCALL_OPENAPI_OPERATION as an error for it and emits no
\* CES_EVALUATION_TOOLCALL_UNKNOWN for it, whether or not it is also a direct tool.
C2_OpenApiOperationWins ==
  pc = "done" =>
    \A e \in 1..Len(model.evaluationInfos) :
      \A named \in C2_ToolNames(model.evaluationInfos[e].manifestData) :
        named[2] \in model.openApiOperations =>
          /\ C2_Emitted("CES_EVALUATION_TOOLCALL_OPENAPI_OPERATION",
                        model.evaluationInfos[e], named[1], named[2]) # {}
          /\ \A i \in C2_Emitted("CES_EVALUATION_TOOLCALL_OPENAPI_OPERATION",
                                 model.evaluationInfos[e], named[1], named[2]) :
               issues[i].severity = "error"
          /\ C2_Emitted("CES_EVALUATION_TOOLCALL_UNKNOWN",
                        model.evaluationInfos[e], named[1], named[2]) = {}

\* A pass on an evaluation that expects a call of a name that is both an OpenAPI
\* operation and a direct tool, and in another turn a name that is only an operation.
C2_Witness ==
  /\ pc = "done"
  /\ \E e \in 1..Len(model.evaluationInfos) :
       \E both, only \in C2_ToolNames(model.evaluationInfos[e].manifestData) :
         /\ both[2] \in model.openApiOperations \cap model.directTools
         /\ only[2] \in model.openApiOperations \ model.directTools
         /\ model.directTools # {}
         /\ C2_Emitted("CES_EVALUATION_TOOLCALL_OPENAPI_OPERATION",
                       model.evaluationInfos[e], both[1], both[2]) # {}

(***************************************************************************)
(* Packages with nested files: the accepted fixture with one file a given  *)
(* number of segments below each of two top-level folders.                 *)
(***************************************************************************)
MaxDepth == 4

TopLevelChoices ==
  <<"agents", "tools", "examples", "toolsets", "guardrails", "evaluations", "docs">>

\* The path of a file depth segments below the top-level folder, through folders
\* named with the given stem.
RECURSIVE NestedPath(_, _, _)
NestedPath(topLevel, stem, depth) ==
  IF depth <= 1 THEN topLevel \o "/" \o stem \o ".txt"
  ELSE NestedPath(topLevel \o "/" \o stem \o ToString(depth), stem, depth - 1)

InitNesting ==
  \E t1 \in 1..Len(TopLevelChoices), d1 \in 1..MaxDepth,
     t2 \in {"agents", "toolsets"}, d2 \in 2..MaxDepth :
    Fresh(Put(Put(BaseFixture, NestedPath(TopLevelChoices[t1], "first", d1),
                  TextFile(<<"notes">>)),
              NestedPath(t2, "second", d2), TextFile(<<"notes">>)))

SpecNesting == InitNesting /\ [][validatePackageRoot]_vars

\* The segments of a file's path below the package root.
C3_Segments(filePath) == split(SubSeq(filePath, Len(rootPath) + 2, Len(filePath)), "/")

C3_Warnings(code, filePath) ==
  Cardinality({i \in 1..Len(issues) : issues[i].code = code /\ issues[i].file = filePath})

C3_DepthCodes ==
  {"CES_NESTING_DEPTH_EXCEEDED", "CES_TOOLSET_NESTING_DEPTH_EXCEEDED",
   "CES_GUARDRAIL_NESTING_DEPTH_EXCEEDED"}

\* The depth warning due for a file with the given segments, "" when none is due.
C3_Due(segments) ==
  LET topLevel == segments[1]
      depth == Len(segments) - 1
  IN  IF topLevel \in {"agents", "tools", "examples"} /\ depth > 2
      THEN "CES_NESTING_DEPTH_EXCEEDED"
      ELSE IF topLevel = "toolsets" /\ depth > 3 THEN "CES_TOOLSET_NESTING_DEPTH_EXCEEDED"
      ELSE IF topLevel = "guardrails" /\ depth > 2 THEN "CES_GUARDRAIL_NESTING_DEPTH_EXCEEDED"
      ELSE ""

\* C3: for every file of the model, with depth the number of path segments below its
\* top-level folder: under agents/, tools/ or examples/ CES_NESTING_DEPTH_EXCEEDED is
\* emitted iff depth > 2, under toolsets/ CES_TOOLSET_NESTING_DEPTH_EXCEEDED iff
\* depth > 3, under guardrails/ CES_GUARDRAIL_NESTING_DEPTH_EXCEEDED iff depth > 2;
\* each is a warning, and a file gets at most one depth warning.
C3_DepthWarnings ==
  pc = "done" =>
    \A f \in 1..Len(model.files) :
      /\ \A code \in C3_DepthCodes :
           C3_Warnings(code, model.files[f])
             = IF code = C3_Due(C3_Segments(model.files[f])) THEN 1 ELSE 0
      /\ \A i \in 1..Len(issues) :
           issues[i].code \in C3_DepthCodes /\ issues[i].file = model.files[f]
             => issues[i].severity = "warning"

\* A pass over a package with a file under agents/ one level past the limit, which
\* warns, and files under toolsets/ at the limit and one level past it, of which
\* only the second warns.
C3_Witness ==
  /\ pc = "done"
  /\ \E f, g, h \in 1..Len(model.files) :
       /\ C3_Segments(model.files[f])[1] = "agents" /\ Len(C3_Segments(model.files[f])) = 4
       /\ C3_Warnings("CES_NESTING_DEPTH_EXCEEDED", model.files[f]) = 1
       /\ C3_Segments(model.files[g])[1] = "toolsets" /\ Len(C3_Segments(model.files[g])) = 4
       /\ C3_Warnings("CES_TOOLSET_NESTING_DEPTH_EXCEEDED", model.files[g]) = 0
       /\ C3_Segments(model.files[h])[1] = "toolsets" /\ Len(C3_Segments(model.files[h])) = 5
       /\ C3_Warnings("CES_TOOLSET_NESTING_DEPTH_EXCEEDED", model.files[h]) = 1

(***************************************************************************)
(* Packages with an environment.json: a toolsets field that passes or      *)
(* fails its checks, and a meta field that holds a host string, once or    *)
(* twice or as a key, under some levels of records or arrays.              *)
(***************************************************************************)
MaxNesting == 2

HostChoices ==
  <<"https://api.example.com", "http://localhost:8080", "http://LocalHost/x",
    "http://127.0.0.1:9", "http://127x0x0x1", "http://LOCALHOST">>

\* The toolsets field: as in the fixture, absent, with an entry that is no record,
\* with a url that is no string, and a list.
ToolsetsFieldChoices ==
  << EnvironmentDoc(JStr("https://api.example.com")).o,
     <<>>,
     <<KV("toolsets", JObj(<<KV("location", JStr("none"))>>))>>,
     EnvironmentDoc(JNum(8080)).o,
     <<KV("toolsets", JArr(<<>>))>> >>

HostPayload(host, occurrence) ==
  CASE occurrence = "once" -> JStr(host)
    [] occurrence = "twice" -> JArr(<<JStr(host), JStr(host \o "/again")>>)
    [] OTHER -> JObj(<<KV(host, JNum(1))>>)

RECURSIVE Nest(_, _, _)
Nest(shape, levels, value) ==
  IF levels <= 0 THEN value
  ELSE IF shape = "record" THEN JObj(<<KV("inner", Nest(shape, levels - 1, value))>>)
  ELSE JArr(<<JNum(0), Nest(shape, levels - 1, value)>>)

EnvironmentPath == pathJoin(rootPath, "environment.json")

InitEnvironment ==
  \/ \E t \in 1..Len(ToolsetsFieldChoices), h \in 1..Len(HostChoices),
        shape \in {"record", "array"}, levels \in 0..MaxNesting,
        occurrence \in {"once", "twice", "key"} :
       Fresh(Put(BaseFixture, "environment.json",
                 JsonFile(JObj(ToolsetsFieldChoices[t]
                                 \o <<KV("meta", Nest(shape, levels,
                                                      HostPayload(HostChoices[h],
                                                                  occurrence)))>>))))
  \/ \E file \in {MalformedFile, JsonFile(JArr(<<JStr("http://localhost:8080")>>))} :
       Fresh(Put(BaseFixture, "environment.json", file))

SpecEnvironment == InitEnvironment /\ [][validatePackageRoot]_vars

\* The string values of a document at any depth, inside records and inside arrays.
RECURSIVE C4_Strings(_)
C4_Strings(doc) ==
  IF isString(doc) THEN {doc.s}
  ELSE IF isArray(doc) THEN UNION {C4_Strings(doc.a[i]) : i \in 1..Len(doc.a)}
  ELSE IF isRecord(doc) THEN UNION {C4_Strings(doc.o[i].v) : i \in 1..Len(doc.o)}
  ELSE {}

C4_LocalStrings(doc) ==
  {s \in C4_Strings(doc) :
     includes(toLowerCase(s), "localhost") \/ includes(toLowerCase(s), "127.0.0.1")}

\* What JSON.parse makes of environment.json, Undefined when there is no such
\* readable well-formed file.
C4_Document ==
  LET Of(node) ==
        IF node.kind = "file" /\ node.readable /\ node.json.ok THEN node.json.value
        ELSE Undefined
  IN  Of(Lookup(fs, EnvironmentPath))

C4_LocalhostWarnings ==
  {i \in 1..Len(issues) : issues[i].code = "CES_ENVIRONMENT_LOCALHOST_WARNING"}

\* C4: when environment.json parses to a record, a pass emits exactly one
\* CES_ENVIRONMENT_LOCALHOST_WARNING if some string value of the document, at any
\* depth inside records or arrays, contains localhost or 127.0.0.1 in any letter
\* case, and none otherwise, however many such values there are and whether or not
\* the toolsets field passed its checks.
C4_OneLocalhostWarning ==
  pc = "done" /\ isRecord(C4_Document) =>
    /\ Cardinality(C4_LocalhostWarnings)
         = IF C4_LocalStrings(C4_Document) # {} THEN 1 ELSE 0
    /\ \A i \in C4_LocalhostWarnings :
         issues[i].severity = "warning" /\ issues[i].file = EnvironmentPath

\* A pass on an environment.json whose toolsets field failed its checks and which
\* holds two host strings in mixed case inside an array below the top level: one
\* warning.
C4_Witness ==
  /\ pc = "done"
  /\ isRecord(C4_Document)
  /\ \E i \in 1..Len(issues) : issues[i].code = "CES_ENVIRONMENT_TOOLSETS_INVALID"
  /\ Cardinality(C4_LocalStrings(C4_Document)) = 2
  /\ \A s \in C4_LocalStrings(C4_Document) : ~includes(s, "localhost")
  /\ \A i \in 1..Len(C4_Document.o) : ~isString(C4_Document.o[i].v)
  /\ Cardinality(C4_LocalhostWarnings) = 1

(***************************************************************************)
(* The root agent whose folder is missing.                                 *)
(***************************************************************************)
\* The rootAgent value app.yaml declares, Undefined when there is none.
C5_Declared ==
  LET Of(node) ==
        IF node.kind = "file" /\ node.readable /\ node.yaml.ok /\ isRecord(node.yaml.value)
        THEN Get(node.yaml.value, "rootAgent")
        ELSE Undefined
  IN  Of(Lookup(fs, pathJoin(rootPath, "app.yaml")))

C5_FolderExists(name) == ExistsAsDirectory(fs, pathJoin(rootPath, "agents/" \o name))

\* The package has no issue once its manifest declares the fixture's root agent.
C5_OtherwiseIssueFree ==
  LET Clean(tree) ==
        /\ BuildException(tree, rootPath) = NoException
        /\ runRules(buildPackageModel(tree, rootPath), tree) = <<>>
  IN  Clean(WithRootAgent(fs, JStr("voice_banking_agent")))

C5_WithCode(code) == {i \in 1..Len(issues) : issues[i].code = code}

C5_Errors == {i \in 1..Len(issues) : issues[i].severity = "error"}

\* What the claim says of a pass on a manifest that declares the name.
C5_Outcome(name) ==
  /\ ~C5_FolderExists(name) /\ C5_OtherwiseIssueFree =>
       /\ Cardinality(C5_Errors) = 1
       /\ C5_WithCode("CES_ROOT_AGENT_DIR_MISSING") = C5_Errors
       /\ \A i \in C5_Errors : includes(issues[i].message, "agents/" \o name)
       /\ C5_WithCode("CES_ROOT_AGENT_MANIFEST_MISSING") = {}
  /\ C5_FolderExists(name) => C5_WithCode("CES_ROOT_AGENT_DIR_MISSING") = {}

\* C5 (as the code has it): in an otherwise issue-free package whose manifest
\* declares a rootAgent name that is not blank (not empty after trimming) and for
\* which agents/<name> is not an existing directory, the issue list has exactly one
\* error, CES_ROOT_AGENT_DIR_MISSING, whose message names agents/<name>, and no
\* CES_ROOT_AGENT_MANIFEST_MISSING; a pass made when agents/<name> is a directory
\* has no CES_ROOT_AGENT_DIR_MISSING.
C5_RootAgentDirMissing ==
  pc = "done" /\ NonBlankString(C5_Declared) => C5_Outcome(C5_Declared.s)

\* C5 as stated: the same for every rootAgent name that is a non-empty string.
C5_AsStated ==
  pc = "done" /\ isString(C5_Declared) /\ C5_Declared.s # "" => C5_Outcome(C5_Declared.s)

\* The first pass returned the one CES_ROOT_AGENT_DIR_MISSING error, the folder was
\* made, and the pass after that has no such issue.
C5_Witness ==
  /\ pc = "done"
  /\ passes >= 2
  /\ Len(firstIssues) = 1
  /\ firstIssues[1].code = "CES_ROOT_AGENT_DIR_MISSING"
  /\ firstIssues[1].severity = "error"
  /\ NonBlankString(C5_Declared)
  /\ C5_FolderExists(C5_Declared.s)
  /\ C5_WithCode("CES_ROOT_AGENT_DIR_MISSING") = {}
  /\ C5_WithCode("CES_ROOT_AGENT_MANIFEST_MISSING") # {}

(***************************************************************************)
(* Packages whose root agent instruction is a sequence of marker lines,    *)
(* and packages whose instruction file cannot be read or belongs to an     *)
(* agent folder with the reserved name.                                    *)
(***************************************************************************)
MaxLines == 3

LineChoices ==
  <<"<role>", "</role>", "<persona>", "</persona>", "<Role>Be kind.</ROLE>",
    "</persona></role>">>

ReservedAgent(instruction) ==
  Put(Put(BaseFixture, "agents/__global__/__global__.json",
          JsonFile(AgentManifest("__global__", InstructionPathOf("__global__"), <<>>))),
      "agents/__global__/instruction.txt", instruction)

InitInstructions ==
  \/ \E n \in 1..MaxLines :
       \E choice \in [1..n -> 1..Len(LineChoices)] :
         Fresh(Put(BaseFixture, VoiceInstruction,
                   TextFile([i \in 1..n |-> LineChoices[choice[i]]])))
  \/ \E tree \in {Put(BaseFixture, VoiceInstruction,
                      Unreadable(TextFile(RoleOnly("Root agent instruction")))),
                  Put(BaseFixture, VoiceInstruction, Dir(<<>>)),
                  ReservedAgent(TextFile(<<"<role>", "Reserved">>)),
                  ReservedAgent(TextFile(RoleOnly("Reserved")))} :
       Fresh(tree)

SpecInstructions == InitInstructions /\ [][validatePackageRoot]_vars

\* The section a line opens: the one whose opening marker the trimmed line starts with.
C6_Opened(line) ==
  {n \in SectionNames : startsWith(toLowerCase(trim(line)), "<" \o n \o ">")}

\* The sections whose closing marker is on the line, and of those the leftmost.
C6_ClosersOn(line) == {n \in SectionNames : includes(toLowerCase(line), "</" \o n \o ">")}

C6_FirstCloserOn(line) ==
  {n \in C6_ClosersOn(line) :
     \A other \in C6_ClosersOn(line) :
       indexOf(toLowerCase(line), "</" \o n \o ">")
         <= indexOf(toLowerCase(line), "</" \o other \o ">")}

\* The lines on which section n was opened and is still open after line i - 1, given
\* the markers that close a section on a line.
RECURSIVE C6_StillOpen(_, _, _, _, _)
C6_StillOpen(lines, i, n, Closers(_), open) ==
  IF i > Len(lines) THEN open
  ELSE LET opened == IF n \in C6_Opened(lines[i]) THEN Append(open, i) ELSE open
           closed == IF n \in Closers(lines[i]) /\ opened # <<>>
                     THEN SubSeq(opened, 1, Len(opened) - 1)
                     ELSE opened
       IN  C6_StillOpen(lines, i + 1, n, Closers, closed)

\* The <<section, opening line>> pairs left unclosed at the end of the text.
C6_Unclosed(lines, Closers(_)) ==
  UNION {{<<n, k>> : k \in Range(C6_StillOpen(lines, 1, n, Closers, <<>>))}
         : n \in SectionNames}

C6_ParseErrors(filePath) ==
  {i \in 1..Len(issues) :
     issues[i].code = "CES_INSTRUCTION_PARSE_ERROR" /\ issues[i].file = filePath}

\* One error that names every unclosed section with its line, or no error when
\* nothing is left unclosed.
C6_Reported(filePath, unclosed) ==
  IF unclosed = {} THEN C6_ParseErrors(filePath) = {}
  ELSE /\ Cardinality(C6_ParseErrors(filePath)) = 1
       /\ \A i \in C6_ParseErrors(filePath) :
            /\ issues[i].severity = "error"
            /\ \A u \in unclosed :
                 includes(issues[i].message, "<" \o u[1] \o "> at line " \o ToString(u[2]))

C6_InstructionPath(agentInfo) == pathJoin(agentInfo.dirPath, "instruction.txt")

C6_TextOf(node) == IF node.kind = "file" THEN node.lines ELSE <<>>

\* C6 (as the code has it): for every agent whose folder is not named __global__ and
\* whose instruction file can be read, with a section opened by a marker at the
\* start of a trimmed line and closed by the first closing marker of a line: if
\* sections are left unclosed the pass emits one CES_INSTRUCTION_PARSE_ERROR error
\* on the file whose message names each of them with its opening line, and if none
\* is left unclosed it emits no CES_INSTRUCTION_PARSE_ERROR on the file.
C6_UnclosedSections ==
  pc = "done" =>
    \A a \in 1..Len(model.agentInfos) :
      LET Check(filePath, node) ==
            node.kind = "file" /\ node.readable =>
              C6_Reported(filePath, C6_Unclosed(node.lines, C6_FirstCloserOn))
      IN  model.agentInfos[a].name # "__global__" =>
            Check(C6_InstructionPath(model.agentInfos[a]),
                  Lookup(fs, C6_InstructionPath(model.agentInfos[a])))

\* C6 as stated: the same for every instruction file of every agent, a section
\* counting as closed by any closing marker of its name.
C6_AsStated ==
  pc = "done" =>
    \A a \in 1..Len(model.agentInfos) :
      LET Check(filePath, node) ==
            node.kind # "none" =>
              C6_Reported(filePath, C6_Unclosed(C6_TextOf(node), C6_ClosersOn))
      IN  Check(C6_InstructionPath(model.agentInfos[a]),
                Lookup(fs, C6_InstructionPath(model.agentInfos[a])))

\* A pass on an instruction in which two sections interleave and two openings are
\* left unclosed, reported in one error.
C6_Witness ==
  /\ pc = "done"
  /\ \E a \in 1..Len(model.agentInfos) :
       LET Seen(filePath, node) ==
             /\ node.kind = "file" /\ node.readable
             /\ Cardinality(C6_Unclosed(node.lines, C6_FirstCloserOn)) = 2
             /\ Len(node.lines) = 3
             /\ Cardinality(C6_ParseErrors(filePath)) = 1
       IN  /\ model.agentInfos[a].name # "__global__"
           /\ Seen(C6_InstructionPath(model.agentInfos[a]),
                   Lookup(fs, C6_InstructionPath(model.agentInfos[a])))

C8_App ==
  LET Of(node) ==
        IF node.kind = "file" /\ node.readable /\ node.yaml.ok THEN node.yaml.value
        ELSE Undefined
  IN  Of(Lookup(fs, pathJoin(rootPath, "app.yaml")))

C8_AgentNames == {model.agentInfos[a].name : a \in 1..Len(model.agentInfos)}

C8_ToolsetNames == {model.toolsetInfos[t].name : t \in 1..Len(model.toolsetInfos)}

\* An app.yaml and no app.json, declaring a rootAgent whose directory and manifest
\* exist, a globalInstruction naming an existing file, and an empty guardrails list.
C8_ManifestAccepted ==
  LET Declares(rootAgent, globalInstruction) ==
        /\ isString(rootAgent)
        /\ C5_FolderExists(rootAgent.s)
        /\ existsSync(fs, pathJoin(rootPath,
                                   "agents/" \o rootAgent.s \o "/" \o rootAgent.s \o ".json"))
        /\ isString(globalInstruction)
        /\ isFile(fs, pathJoin(rootPath, globalInstruction.s))
  IN  /\ ~existsSync(fs, pathJoin(rootPath, "app.json"))
      /\ isRecord(C8_App)
      /\ Declares(Get(C8_App, "rootAgent"), Get(C8_App, "globalInstruction"))
      /\ Get(C8_App, "guardrails") = JArr(<<>>)

\* The text has a <role> section and its <role> sections are closed.
C8_RoleClosed(lines) ==
  /\ \E i \in 1..Len(lines) : "role" \in C6_Opened(lines[i])
  /\ C6_StillOpen(lines, 1, "role", C6_FirstCloserOn, <<>>) = <<>>

C8_InfosAt(filePath) ==
  {i \in 1..Len(model.instructionInfos) : model.instructionInfos[i].filePath = filePath}

\* The {@AGENT:} and {@TOOL:} references of the instruction file resolve.
C8_ReferencesResolve(filePath) ==
  \A i \in C8_InfosAt(filePath) :
    \A r \in 1..Len(model.instructionInfos[i].references) :
      LET Resolves(ref) ==
            IF ref.type = "agent" THEN ref.name \in C8_AgentNames
            ELSE ref.name \in model.directTools
      IN  Resolves(model.instructionInfos[i].references[r])

C8_ListedIn(list, names, NameOf(_)) ==
  list = Undefined \/ (isArray(list) /\ \A i \in 1..Len(list.a) : NameOf(list.a[i]) \in names)

C8_NameOfChild(entry) == IF isString(entry) THEN entry.s ELSE ""

C8_AgentAccepted(agentInfo) ==
  LET Text(node) ==
        /\ node.kind = "file" /\ node.readable
        /\ C8_RoleClosed(node.lines)
  IN  /\ isRecord(agentInfo.manifestData)
      /\ Get(agentInfo.manifestData, "instruction")
           = JStr("agents/" \o agentInfo.name \o "/instruction.txt")
      /\ Text(Lookup(fs, C6_InstructionPath(agentInfo)))
      /\ C8_ReferencesResolve(C6_InstructionPath(agentInfo))
      /\ C8_ListedIn(Get(agentInfo.manifestData, "childAgents"), C8_AgentNames,
                     C8_NameOfChild)
      /\ C8_ListedIn(Get(agentInfo.manifestData, "toolsets"), C8_ToolsetNames,
                     extractToolsetName)

C8_ToolsetAccepted(toolsetInfo) ==
  LET Parsed(schema) ==
        /\ ~Truthy(schema.error)
        /\ isRecord(schema.data)
        /\ HasKey(schema.data, "openapi") \/ HasKey(schema.data, "swagger")
      Declared(schemaPath) ==
        /\ schemaPath # ""
        /\ isFile(fs, pathJoin(rootPath, schemaPath))
        /\ Parsed(parseOpenApiFile(fs, pathJoin(rootPath, schemaPath)))
  IN  /\ isRecord(toolsetInfo.manifestData)
      /\ Declared(readDeclaredSchemaPath(toolsetInfo.manifestData))

\* An environment.json with a record toolsets field, string urls and no localhost
\* values.
C8_EnvironmentAccepted ==
  LET UrlOf(entry) ==
        IF isRecord(entry) /\ isRecord(Get(entry, "openApiToolset"))
        THEN Get(Get(entry, "openApiToolset"), "url")
        ELSE Undefined
      Toolsets(toolsets) ==
        /\ isRecord(toolsets)
        /\ \A i \in 1..Len(toolsets.o) :
             UrlOf(toolsets.o[i].v) = Undefined \/ isString(UrlOf(toolsets.o[i].v))
  IN  /\ isRecord(C4_Document)
      /\ Toolsets(Get(C4_Document, "toolsets"))
      /\ C4_LocalStrings(C4_Document) = {}

\* The conditions the claim lists.
C8_Listed ==
  /\ C8_ManifestAccepted
  /\ \A a \in 1..Len(model.agentInfos) : C8_AgentAccepted(model.agentInfos[a])
  /\ \A t \in 1..Len(model.toolsetInfos) : C8_ToolsetAccepted(model.toolsetInfos[t])
  /\ \A f \in 1..Len(model.files) : C3_Due(C3_Segments(model.files[f])) = ""
  /\ ~existsSync(fs, pathJoin(rootPath, "evaluations"))
  /\ C8_EnvironmentAccepted

\* The call expressions found in the examples sections resolve: a qualified one names
\* a toolset folder, an unqualified one a direct tool where the package has any.
C8_CallsResolve(filePath) ==
  \A i \in C8_InfosAt(filePath) :
    \A c \in 1..Len(model.instructionInfos[i].toolCalls) :
      LET Resolves(parts) ==
            IF Len(parts) > 1 THEN parts[1] \in C8_ToolsetNames
            ELSE model.directTools = {} \/ parts[1] \in model.directTools
      IN  Resolves(split(model.instructionInfos[i].toolCalls[c].operation, "."))

\* The conditions the claim leaves out.
C8_Further ==
  /\ ~isDirectory(fs, pathJoin(rootPath, "evaluationDatasets"))
  /\ \A a \in 1..Len(model.agentInfos) :
       /\ C6_Unclosed(Lookup(fs, C6_InstructionPath(model.agentInfos[a])).lines,
                      C6_FirstCloserOn) = {}
       /\ C8_CallsResolve(C6_InstructionPath(model.agentInfos[a]))
  /\ LET Entries(toolsets) ==
           \A i \in 1..Len(toolsets.o) :
             /\ isRecord(toolsets.o[i].v)
             /\ \/ Get(toolsets.o[i].v, "openApiToolset") = Undefined
                \/ isRecord(Get(toolsets.o[i].v, "openApiToolset"))
     IN  Entries(Get(C4_Document, "toolsets"))

\* C8 (as the code has it): runRules returns the empty list for every package that
\* meets the listed conditions and, besides, has no top-level evaluationDatasets
\* directory, has every section opened in an agent instruction closed, has only call
\* expressions in examples sections that resolve, and has in environment.json only
\* toolsets entries that are records whose openApiToolset, where given, is a record.
C8_AcceptedPackage ==
  pc = "done" /\ C8_Listed /\ C8_Further => issues = <<>>

\* C8 as stated: runRules returns the empty list for every package that meets the
\* listed conditions.
C8_AsStated ==
  pc = "done" /\ C8_Listed => issues = <<>>

\* A pass over a package that meets all the conditions, with a script tool folder.
C8_Witness ==
  /\ pc = "done"
  /\ C8_Listed
  /\ C8_Further
  /\ model.directTools # {}
  /\ issues = <<>>

(***************************************************************************)
(* Packages with two defects: a defect made on a package with a defect.    *)
(***************************************************************************)
InitDefectPairs ==
  \E d1, d2 \in 1..Len(Defects) : Fresh(DefectsOf(Defects[d1])[d2])

SpecDefectPairs == InitDefectPairs /\ [][validatePackageRoot]_vars

\* Every directory of the tree can be listed.
C9_Listable == \A e \in Range(collectPaths(fs, rootPath)) : ~e.denied

\* There is no manifest file at the path that parses to a record.
C9_ManifestFails(manifestPath) ==
  LET Fails(node) ==
        \/ node.kind # "file"
        \/ ~node.readable
        \/ ~node.json.ok
        \/ ~isRecord(node.json.value)
  IN  Fails(Lookup(fs, manifestPath))

\* There is something at the path that cannot be read as a file.
C9_Unreadable(filePath) ==
  LET Denied(node) == node.kind = "dir" \/ (node.kind = "file" /\ ~node.readable)
  IN  Denied(Lookup(fs, filePath))

C9_ErrorOn(code, filePath) ==
  \E i \in 1..Len(issues) :
    issues[i].code = code /\ issues[i].severity = "error" /\ issues[i].file = filePath

\* Every folder below the top-level folder has its one info in the model, and the
\* info of a folder whose manifest fails carries the error and has the issue on the
\* manifest's path.
C9_EntitiesHandled(folder, infos, code) ==
  \A dirPath \in Range(collectImmediateDirectories(fs, pathJoin(rootPath, folder))) :
    LET Handled(name, manifestPath) ==
          /\ Cardinality({i \in 1..Len(infos) : infos[i].name = name}) = 1
          /\ C9_ManifestFails(manifestPath) =>
               /\ \A i \in 1..Len(infos) :
                    infos[i].name = name => Truthy(infos[i].manifestError)
               /\ C9_ErrorOn(code, manifestPath)
    IN  Handled(basename(dirPath), pathJoin(dirPath, basename(dirPath) \o ".json"))

\* The info of an instruction file that cannot be read carries the read error.
C9_ErrorCarried(filePath) ==
  \E i \in 1..Len(model.instructionInfos) :
    /\ model.instructionInfos[i].filePath = filePath
    /\ Truthy(model.instructionInfos[i].parseError)

\* The unreadable instruction files of the agents are handled; Reported tells for
\* which agent folders the issue is due.
C9_InstructionsHandled(Reported(_)) ==
  \A dirPath \in Range(collectImmediateDirectories(fs, pathJoin(rootPath, "agents"))) :
    C9_Unreadable(pathJoin(dirPath, "instruction.txt")) =>
      /\ C9_ErrorCarried(pathJoin(dirPath, "instruction.txt"))
      /\ Reported(basename(dirPath)) =>
           C9_ErrorOn("CES_INSTRUCTION_PARSE_ERROR", pathJoin(dirPath, "instruction.txt"))

\* Rules on the other entities are evaluated: the unknown childAgents of the agents
\* whose manifest parsed, and the localhost values of environment.json, are reported.
C9_OthersEvaluated ==
  /\ \A a \in 1..Len(model.agentInfos) :
       LET Children(childAgents, manifestPath) ==
             isArray(childAgents) =>
               \A c \in 1..Len(childAgents.a) :
                 NonBlankString(childAgents.a[c]) /\ childAgents.a[c].s \notin C8_AgentNames
                   => C9_ErrorOn("CES_CHILD_AGENT_MISSING", manifestPath)
       IN  isRecord(model.agentInfos[a].manifestData) =>
             Children(Get(model.agentInfos[a].manifestData, "childAgents"),
                      model.agentInfos[a].manifestPath)
  /\ isRecord(C4_Document) /\ C4_LocalStrings(C4_Document) # {} =>
       C4_LocalhostWarnings # {}

C9_Handled(Reported(_)) ==
  /\ pc = "done"
  /\ C9_EntitiesHandled("agents", model.agentInfos, "CES_AGENT_MANIFEST_INVALID")
  /\ C9_EntitiesHandled("toolsets", model.toolsetInfos, "CES_TOOLSET_MANIFEST_INVALID")
  /\ C9_EntitiesHandled("evaluations", model.evaluationInfos,
                        "CES_EVALUATION_MANIFEST_INVALID")
  /\ C9_InstructionsHandled(Reported)
  /\ C9_OthersEvaluated

C9_GlobalInstruction == pathJoin(rootPath, "global_instruction.txt")

C9_NotReserved(agentName) == agentName # "__global__"

C9_Every(agentName) == TRUE

SampleDoc == JObj(<<KV("displayName", JStr("sample"))>>)

\* What can be at the path: well-formed files with a record, list, scalar or null at
\* the root, an empty file, a malformed one, one that may not be read, a directory.
FileChoices ==
  <<JsonFile(SampleDoc), JsonFile(JObj(<<>>)), JsonFile(JArr(<<JStr("x")>>)),
    JsonFile(JStr("text")), JsonFile(JNum(3)), JsonFile(JBool(FALSE)), JsonFile(JNull),
    YamlFile(SampleDoc),
    File(<<"- a", "- b">>, NotJson, ParseOk(JArr(<<JStr("a"), JStr("b")>>))),
    TextFile(<<"plain words">>),
    File(<<"">>, ParseFail("Unexpected end of JSON input"), ParseOk(JNull)),
    MalformedFile, Unreadable(JsonFile(SampleDoc)), Dir(<<>>)>>

ExtensionChoices == <<".json", ".yaml", ".yml", ".JSON", ".txt", "">>

ParserNames == {"parseJsonFile", "parseYamlFile", "parseFileByExtension", "parseOpenApiFile"}

InitParsers ==
  \E k \in 1..Len(FileChoices), e \in 1..Len(ExtensionChoices) :
    Fresh(Dir(<<Entry("doc" \o ExtensionChoices[e], FileChoices[k])>>))

\* A call of one of the parsers.
ParseFile ==
  \E parser \in ParserNames,
     name \in {fs.entries[1].name, "absent.json", "absent.yaml"} :
    LET Call(filePath) ==
          [called |-> TRUE, parser |-> parser, filePath |-> filePath,
           outcome |-> CASE parser = "parseJsonFile" -> parseJsonFile(fs, filePath)
                         [] parser = "parseYamlFile" -> parseYamlFile(fs, filePath)
                         [] parser = "parseFileByExtension" -> parseFileByExtension(fs, filePath)
                         [] OTHER -> parseOpenApiFile(fs, filePath)]
    IN  /\ result' = Call(pathJoin(rootPath, name))
        /\ UNCHANGED <<fs, model, appended, issues, pc, passes, firstFs, firstModel,
                       firstIssues, orchestrator>>

SpecParsers == InitParsers /\ [][ParseFile]_vars

\* The format the call reads the file in: "json", "yaml", or "" when it reads none.
C10_Format(parser, filePath) ==
  IF parser = "parseJsonFile" THEN "json"
  ELSE IF parser = "parseYamlFile" THEN "yaml"
  ELSE IF endsWith(toLowerCase(filePath), ".json") THEN "json"
  ELSE IF endsWith(toLowerCase(filePath), ".yaml") \/ endsWith(toLowerCase(filePath), ".yml")
  THEN "yaml"
  ELSE ""

\* What the library makes of the file in the format, when the file can be read.
C10_Parsed(filePath, format) ==
  LET Of(node) ==
        IF node.kind # "file" \/ ~node.readable \/ format = "" THEN ParseFail("not read")
        ELSE IF format = "json" THEN node.json
        ELSE node.yaml
  IN  Of(Lookup(fs, filePath))

C10_RootMessage(format) ==
  JStr((IF format = "json" THEN "JSON" ELSE "YAML") \o " root must be an object")

\* C10: parseJsonFile, parseYamlFile and parseFileByExtension (and parseOpenApiFile,
\* which is the latter) never throw: for every file they return either a record
\* document with no error, or a null document with an error, never both and never
\* neither; a file that parses to a value that is no record (a scalar, a list or
\* null) yields a null document with the error "<format> root must be an object".
C10_ParsersReturn ==
  result.called =>
    LET Returns(outcome, parsed, format) ==
          /\ ~outcome.threw
          /\ \/ isRecord(outcome.data) /\ outcome.error = Undefined
             \/ outcome.data = JNull /\ isString(outcome.error) /\ outcome.error.s # ""
          /\ parsed.ok /\ ~isRecord(parsed.value) =>
               outcome.data = JNull /\ outcome.error = C10_RootMessage(format)
          /\ parsed.ok /\ isRecord(parsed.value) => outcome.data = parsed.value
        In(format) == Returns(result.outcome, C10_Parsed(result.filePath, format), format)
    IN  In(C10_Format(result.parser, result.filePath))

\* A call of parseFileByExtension on a well-formed YAML file whose root is a list.
C10_Witness ==
  /\ result.called
  /\ result.parser = "parseFileByExtension"
  /\ C10_Parsed(result.filePath, "yaml").ok
  /\ isArray(C10_Parsed(result.filePath, "yaml").value)
  /\ result.outcome.data = JNull
  /\ result.outcome.error = JStr("YAML root must be an object")


(***************************************************************************)
(* The tool inventory of the model.                                        *)
(***************************************************************************)
\* C11: in every model buildPackageModel produces, directTools and
\* openApiOperations are disjoint: no name is a member of both.
C11_InventoryDisjoint ==
  pc = "done" => model.directTools \cap model.openApiOperations = {}


\* C12: for every toolsets entry {toolset: T, toolIds: [...]} of an agent manifest
\* with a non-empty T, each non-blank string id of toolIds is a member of
\* model.openApiOperations as the bare id and as "T.id"; and each non-blank id of a
\* toolset manifest's own toolIds is a member of model.openApiOperations as
\* "<toolset folder name>.id".
C12_NamespacedInOperations ==
  pc = "done" =>
    /\ \A a \in {x \in Range(model.agentInfos) : isRecord(x.manifestData)} :
         \A e \in {r \in RecordsOf(Get(a.manifestData, "toolsets")) : ToolsetNameOf(r) # ""} :
           \A tid \in NonBlankStringsOf(Get(e, "toolIds")) :
             /\ tid \in model.openApiOperations
             /\ (ToolsetNameOf(e) \o "." \o tid) \in model.openApiOperations
    /\ \A ts \in {x \in Range(model.toolsetInfos) : isRecord(x.manifestData)} :
         \A tid \in NonBlankStringsOf(Get(ts.manifestData, "toolIds")) :
           (ts.name \o "." \o tid) \in model.openApiOperations


(***************************************************************************)
(* Packages for the direct tool inventory: the tools fields of the two     *)
(* agents, the content of tools/, and edits of both between passes.        *)
(***************************************************************************)
\* The tools field of the root agent: absent, empty, names, names among blanks and
\* values that are no strings, and a string where the array is expected.
ToolsFieldChoices ==
  <<Undefined, JArr(<<>>), JArr(<<JStr("lookup")>>),
    JArr(<<JStr("end_session"), JStr(" "), JNum(3), JStr(" padded "), JStr("")>>),
    JStr("lookup")>>

\* The manifest of the child agent: without tools, with tools, and with tools in a
\* file that cannot be read.
ChildToolsChoices ==
  <<JsonFile(ChildAgentDoc),
    JsonFile(JObj(ChildAgentDoc.o \o <<KV("tools", JArr(<<JStr("get_branches")>>))>>)),
    Unreadable(JsonFile(JObj(ChildAgentDoc.o
                             \o <<KV("tools", JArr(<<JStr("get_branches")>>))>>)))>>

\* The entries of tools/: no folder, a script tool without manifest, one with a
\* manifest next to a plain file, one whose manifest is malformed.
ScriptToolChoices ==
  <<NoNode,
    Dir(<<Entry("lookup", Dir(<<>>))>>),
    Dir(<<Entry("calc", Dir(<<Entry("calc.json",
                                    JsonFile(JObj(<<KV("displayName", JStr("calc"))>>)))>>)),
          Entry("notes.txt", TextFile(<<"notes">>))>>),
    Dir(<<Entry("broken", Dir(<<Entry("broken.json", MalformedFile)>>))>>)>>

RootAgentManifestPath == "agents/voice_banking_agent/voice_banking_agent.json"

WithAgentTools(tree, tools) ==
  Put(tree, RootAgentManifestPath,
      JsonFile(JObj(RootAgentDoc.o
                    \o (IF tools = Undefined THEN <<>> ELSE <<KV("tools", tools)>>))))

InitInventory ==
  \E t \in 1..Len(ToolsFieldChoices), c \in 1..Len(ChildToolsChoices),
     s \in 1..Len(ScriptToolChoices) :
    LET WithScripts(tree) ==
          IF ScriptToolChoices[s] = NoNode THEN tree ELSE Put(tree, "tools", ScriptToolChoices[s])
    IN  Fresh(WithScripts(Put(WithAgentTools(BaseFixture, ToolsFieldChoices[t]),
                              LocationManifest, ChildToolsChoices[c])))

\* The user rewrites the tools list of the root agent.
EditAgentTools ==
  \E tools \in {Undefined, JArr(<<JStr("end_session")>>)} :
    /\ fs # WithAgentTools(fs, tools)
    /\ StartPass(WithAgentTools(fs, tools))

NextInventory ==
  \/ validatePackageRoot
  \/ ToggleScriptTool
  \/ EditAgentTools

SpecInventory == InitInventory /\ [][NextInventory]_vars

\* The names of the immediate subdirectories of a top-level folder on disk.
C13_Folders(folder) ==
  LET In(node) ==
        IF node.kind # "dir" THEN {}
        ELSE {node.entries[i].name :
                i \in {j \in 1..Len(node.entries) : node.entries[j].node.kind = "dir"}}
  IN  In(Walk(fs, <<folder>>))

\* The non-blank strings of the tools array of the agent's manifest on disk, {} when
\* the manifest is no readable record or tools no array.
C13_ListedBy(agent) ==
  LET Strs(tools) ==
        IF tools.t # "arr" THEN {}
        ELSE {tools.a[i].s :
                i \in {j \in 1..Len(tools.a) : tools.a[j].t = "str" /\ trim(tools.a[j].s) # ""}}
      Of(node) ==
        IF node.kind = "file" /\ node.readable /\ node.json.ok /\ node.json.value.t = "obj"
        THEN Strs(Get(node.json.value, "tools"))
        ELSE {}
  IN  Of(Walk(fs, <<"agents", agent, agent \o ".json">>))

\* C13: in every model buildPackageModel produces, directTools is exactly the set of
\* the non-blank strings of the tools arrays of the agents with a record manifest,
\* united with the folder names of the immediate subdirectories of tools/, whether or
\* not their manifests exist or parse; the set is computed anew for each model.
C13_DirectToolsExact ==
  pc = "done" =>
    model.directTools
      = UNION {C13_ListedBy(agent) : agent \in C13_Folders("agents")} \cup C13_Folders("tools")

\* A later pass, after the tools list and the script tools were edited: the set
\* differs from the first pass's, holds a listed name with its blanks and the folder
\* of a script tool with a malformed manifest, and no blank or non-string entry.
C13_Witness ==
  /\ pc = "done"
  /\ passes >= 2
  /\ model.directTools # firstModel.directTools
  /\ "end_session" \in model.directTools
  /\ "broken" \in model.directTools \/ "lookup" \in model.directTools
  /\ \E name \in firstModel.directTools : name \notin model.directTools


(***************************************************************************)
(* Packages for the manifest discovery: what is at app.yaml and what at    *)
(* app.json.                                                               *)
(***************************************************************************)
\* The manifests: the accepted one; one whose three references all fail; one without
\* the three fields; one with a blank rootAgent; one with an inline global instruction.
ManifestBodyChoices ==
  <<BaseApp,
    AppManifest(JStr("missing_root_agent"), JStr("missing/global.txt"),
                JArr(<<JStr("ghost_guard")>>)),
    AppManifest(Undefined, Undefined, Undefined),
    AppManifest(JStr("  "), JStr("global_instruction.txt"), JArr(<<>>)),
    AppManifest(JStr("location_services_agent"), JStr("Be kind"), JArr(<<>>))>>

\* What is at app.yaml: nothing, a manifest, a malformed file, a list, a directory.
AppYamlChoices ==
  <<NoNode>> \o MapSeq(ManifestBodyChoices, YamlFile)
  \o <<MalformedFile, File(<<"- a">>, NotJson, ParseOk(JArr(<<JStr("a")>>))), Dir(<<>>)>>

\* What is at app.json: nothing, a manifest, a malformed file, a list.
AppJsonChoices ==
  <<NoNode>> \o MapSeq(ManifestBodyChoices, JsonFile)
  \o <<MalformedFile, JsonFile(JArr(<<JStr("a")>>))>>

InitManifests ==
  \E y \in 1..Len(AppYamlChoices), j \in 1..Len(AppJsonChoices) :
    LET WithYaml(tree) ==
          IF AppYamlChoices[y] = NoNode THEN tree ELSE Put(tree, "app.yaml", AppYamlChoices[y])
        WithJson(tree) ==
          IF AppJsonChoices[j] = NoNode THEN tree ELSE Put(tree, "app.json", AppJsonChoices[j])
    IN  Fresh(WithJson(WithYaml(Remove(BaseFixture, "app.yaml"))))

SpecManifests == InitManifests /\ [][validatePackageRoot]_vars

\* There is a file or a directory of that name in the package root.
C14_AtRoot(name) == Walk(fs, <<name>>).kind # "none"

C14_WithCode(code) == {i \in 1..Len(issues) : issues[i].code = code}

\* The code is emitted, once and with the severity, exactly when the condition holds.
C14_EmittedIff(code, severity, condition) ==
  /\ C14_WithCode(code) # {} <=> condition
  /\ Cardinality(C14_WithCode(code)) <= 1
  /\ \A i \in C14_WithCode(code) : issues[i].severity = severity

\* The document of app.yaml: its record, the code's null where it has none.
C14_YamlDocument ==
  LET Of(node) ==
        IF node.kind = "file" /\ node.readable /\ node.yaml.ok /\ node.yaml.value.t = "obj"
        THEN node.yaml.value
        ELSE JNull
  IN  Of(Walk(fs, <<"app.yaml">>))

C14_ReferenceCodes ==
  {"CES_ROOT_AGENT_MISSING", "CES_ROOT_AGENT_DIR_MISSING", "CES_ROOT_AGENT_MANIFEST_MISSING",
   "CES_GLOBAL_INSTRUCTION_MISSING", "CES_GUARDRAIL_REFERENCE_MISSING",
   "CES_GUARDRAIL_JSON_INVALID", "CES_GUARDRAIL_DISPLAYNAME_MISMATCH"}

\* C14: CES_MANIFEST_MISSING (error) is emitted iff neither app.yaml nor app.json
\* exists at the root, CES_MANIFEST_BOTH_PRESENT (warning) iff both exist,
\* CES_APP_JSON_ONLY (warning) iff app.json exists and app.yaml does not; at most one
\* of the three codes is in the issue list; when both exist the model's manifest
\* path, format and data are those of app.yaml; when the manifest is missing no
\* root-agent, global-instruction or guardrail issue is emitted.
C14_ManifestDiscovery ==
  pc = "done" =>
    /\ C14_EmittedIff("CES_MANIFEST_MISSING", "error",
                      ~C14_AtRoot("app.yaml") /\ ~C14_AtRoot("app.json"))
    /\ C14_EmittedIff("CES_MANIFEST_BOTH_PRESENT", "warning",
                      C14_AtRoot("app.yaml") /\ C14_AtRoot("app.json"))
    /\ C14_EmittedIff("CES_APP_JSON_ONLY", "warning",
                      C14_AtRoot("app.json") /\ ~C14_AtRoot("app.yaml"))
    /\ Cardinality({i \in 1..Len(issues) :
                      issues[i].code \in {"CES_MANIFEST_MISSING", "CES_MANIFEST_BOTH_PRESENT",
                                          "CES_APP_JSON_ONLY"}}) <= 1
    /\ C14_AtRoot("app.yaml") /\ C14_AtRoot("app.json") =>
         /\ model.manifestPath = "/pkg/app.yaml"
         /\ model.manifestFormat = "yaml"
         /\ model.manifestData = C14_YamlDocument
    /\ ~C14_AtRoot("app.yaml") /\ ~C14_AtRoot("app.json") =>
         \A i \in 1..Len(issues) : issues[i].code \notin C14_ReferenceCodes

\* Both files hold a manifest and the two differ: the warning is there, the model
\* has the document of app.yaml, and the rootAgent error is the one of app.yaml.
C14_Witness ==
  /\ pc = "done"
  /\ C14_WithCode("CES_MANIFEST_BOTH_PRESENT") # {}
  /\ C14_YamlDocument # JNull
  /\ Walk(fs, <<"app.json">>).json.ok
  /\ Walk(fs, <<"app.json">>).json.value # C14_YamlDocument
  /\ model.manifestData = C14_YamlDocument
  /\ Get(C14_YamlDocument, "rootAgent") = JStr("missing_root_agent")
  /\ C14_WithCode("CES_ROOT_AGENT_DIR_MISSING") # {}


(***************************************************************************)
(* The orchestrator over a workspace with two package folders.  Each       *)
(* folder holds one of the packages below; validateAllPackages validates   *)
(* every root that findPackageRoots returns, validatePackageForUri the     *)
(* root of one file.  The packages are described at rootPath; the issues   *)
(* of the package at a root carry the paths below that root.               *)
(***************************************************************************)
WorkspaceRoots == <<"/ws/alpha", "/ws/beta">>

\* The accepted package, one with an issue, one with a directory that may not be
\* listed, and a folder that holds no manifest.
WorkspacePackages == <<Defects[1], Defects[3], Defects[25], Defects[28]>>

\* findPackageRoots: the folders with an app.yaml or an app.json, sorted.
findPackageRoots(trees) ==
  SelectSeq(WorkspaceRoots,
            LAMBDA r : \/ existsSync(trees[r], pathJoin(rootPath, "app.yaml"))
                       \/ existsSync(trees[r], pathJoin(rootPath, "app.json")))

\* The issue with its file below the given root.
AtRoot(root, issue) ==
  [issue EXCEPT !.file = root \o SubSeq(issue.file, Len(rootPath) + 1, Len(issue.file))]

\* No catch clause: the exception leaves validatePackageRoot, nothing is stored.
Rethrown(root, exception) == [escaped |-> TRUE, stored |-> <<>>]

\* catch (error) { this.packageIssues.set(rootPath, [{ code: ..., line: 1 }]) }
CaughtAtBoundary(root, exception) ==
  [escaped |-> FALSE, stored |-> <<AtRoot(root, RuntimeErrorIssue(exception))>>]

\* The body of validatePackageRoot for the package at a root: what it stores, and
\* whether an exception leaves it.
ValidateRoot(root, tree) ==
  LET Try(exception) ==
        IF exception # NoException THEN CaughtAtBoundary(root, exception)
        ELSE [escaped |-> FALSE,
              stored |-> MapSeq(runRules(buildPackageModel(tree, rootPath), tree),
                                LAMBDA issue : AtRoot(root, issue))]
  IN  Try(BuildException(tree, rootPath))

\* this.packageIssues.set(rootPath, issues)
SetIssues(stored, root, list) ==
  [r \in DOMAIN stored \cup {root} |-> IF r = root THEN list ELSE stored[r]]

\* One call of validatePackageRoot on the map of stored issues.
StoreRoot(o, root, trees) ==
  LET Done(outcome) ==
        [escaped |-> outcome.escaped,
         packageIssues |-> IF outcome.escaped THEN o.packageIssues
                           ELSE SetIssues(o.packageIssues, root, outcome.stored)]
  IN  Done(ValidateRoot(root, trees[root]))

\* for (const root of roots) this.validatePackageRoot(root): an exception that leaves
\* a call ends the loop.
RECURSIVE ValidateRoots(_, _, _)
ValidateRoots(o, roots, trees) ==
  IF roots = <<>> \/ o.escaped THEN o
  ELSE ValidateRoots(StoreRoot(o, Head(roots), trees), Tail(roots), trees)

\* validateAllPackages: every root is validated, the entries of folders that are no
\* roots any more are deleted.
validateAllPackages ==
  LET Finish(roots, o) ==
        orchestrator' =
          [trees |-> orchestrator.trees,
           packageIssues |->
             IF o.escaped THEN o.packageIssues
             ELSE [r \in DOMAIN o.packageIssues \cap Range(roots) |-> o.packageIssues[r]],
           call |-> [kind |-> "all", root |-> "", escaped |-> o.escaped,
                     before |-> orchestrator.packageIssues]]
      Run(roots) ==
        Finish(roots, ValidateRoots([escaped |-> FALSE,
                                     packageIssues |-> orchestrator.packageIssues],
                                    roots, orchestrator.trees))
  IN  /\ Run(findPackageRoots(orchestrator.trees))
      /\ UNCHANGED <<fs, model, appended, issues, pc, passes, firstFs, firstModel,
                     firstIssues, result>>

\* validatePackageForUri for a file of one folder: nothing when the folder holds no
\* manifest, else validatePackageRoot on it.
validatePackageForUri ==
  \E root \in Range(findPackageRoots(orchestrator.trees)) :
    LET Finish(o) ==
          orchestrator' =
            [trees |-> orchestrator.trees,
             packageIssues |-> o.packageIssues,
             call |-> [kind |-> "uri", root |-> root, escaped |-> o.escaped,
                       before |-> orchestrator.packageIssues]]
    IN  /\ Finish(StoreRoot([escaped |-> FALSE, packageIssues |-> orchestrator.packageIssues],
                            root, orchestrator.trees))
        /\ UNCHANGED <<fs, model, appended, issues, pc, passes, firstFs, firstModel,
                       firstIssues, result>>

\* The user changes the package of one folder.
EditWorkspace ==
  \E i \in 1..Len(WorkspaceRoots), p \in 1..Len(WorkspacePackages) :
    /\ orchestrator.trees[WorkspaceRoots[i]] # WorkspacePackages[p]
    /\ orchestrator' =
         [trees |-> [orchestrator.trees EXCEPT ![WorkspaceRoots[i]] = WorkspacePackages[p]],
          packageIssues |-> orchestrator.packageIssues,
          call |-> NoCall]
    /\ UNCHANGED <<fs, model, appended, issues, pc, passes, firstFs, firstModel,
                   firstIssues, result>>

InitOrchestrator ==
  \E a, b \in 1..Len(WorkspacePackages) :
    /\ fs = BaseFixture
    /\ model = NotBuilt
    /\ appended = <<>>
    /\ issues = <<>>
    /\ pc = "pending"
    /\ passes = 0
    /\ firstFs = BaseFixture
    /\ firstModel = NotBuilt
    /\ firstIssues = <<>>
    /\ result = NoResult
    /\ orchestrator =
         [trees |-> [r \in Range(WorkspaceRoots) |->
                       IF r = WorkspaceRoots[1] THEN WorkspacePackages[a]
                       ELSE WorkspacePackages[b]],
          packageIssues |-> <<>>,
          call |-> NoCall]

NextOrchestrator ==
  \/ validateAllPackages
  \/ validatePackageForUri
  \/ EditWorkspace

SpecOrchestrator == InitOrchestrator /\ [][NextOrchestrator]_vars


\* buildPackageModel or runRules throws on the package at the root.
C15_Throws(root) == BuildException(orchestrator.trees[root], rootPath) # NoException

\* The roots the last call validated.
C15_Validated ==
  IF orchestrator.call.kind = "uri" THEN {orchestrator.call.root}
  ELSE Range(findPackageRoots(orchestrator.trees))

\* The entry of the root is exactly the one synthetic issue.
C15_OnlyRuntimeError(root) ==
  /\ root \in DOMAIN orchestrator.packageIssues
  /\ Len(orchestrator.packageIssues[root]) = 1
  /\ orchestrator.packageIssues[root][1].code = "CES_VALIDATOR_RUNTIME_ERROR"
  /\ orchestrator.packageIssues[root][1].severity = "error"
  /\ orchestrator.packageIssues[root][1].file = root \o "/app.yaml"
  /\ orchestrator.packageIssues[root][1].line = 1

\* The entry of the root is the list the rules return for its package.
C15_RulesResult(root) ==
  /\ root \in DOMAIN orchestrator.packageIssues
  /\ orchestrator.packageIssues[root]
       = MapSeq(runRules(buildPackageModel(orchestrator.trees[root], rootPath),
                         orchestrator.trees[root]),
                LAMBDA issue : AtRoot(root, issue))
  /\ \A i \in 1..Len(orchestrator.packageIssues[root]) :
       orchestrator.packageIssues[root][i].code # "CES_VALIDATOR_RUNTIME_ERROR"

\* C15: if buildPackageModel or runRules throws while the orchestrator validates a
\* root, the exception does not leave the validation pass: the stored issues of that
\* root are replaced by exactly one issue with code CES_VALIDATOR_RUNTIME_ERROR,
\* severity error, file <root>/app.yaml and line 1; the stored issues of the other
\* roots are unchanged by the validation of one root; and the remaining roots of the
\* same validateAllPackages pass are still validated.
C15_RuntimeErrorContained ==
  orchestrator.call.kind \in {"all", "uri"} =>
    /\ ~orchestrator.call.escaped
    /\ \A root \in C15_Validated :
         IF C15_Throws(root) THEN C15_OnlyRuntimeError(root) ELSE C15_RulesResult(root)
    /\ orchestrator.call.kind = "uri" =>
         \A root \in Range(WorkspaceRoots) \ {orchestrator.call.root} :
           /\ root \in DOMAIN orchestrator.packageIssues
                <=> root \in DOMAIN orchestrator.call.before
           /\ root \in DOMAIN orchestrator.packageIssues =>
                orchestrator.packageIssues[root] = orchestrator.call.before[root]

\* A validateAllPackages pass in which the first root throws and the second does
\* not: the first root's earlier issues, which were those of the rules, are replaced
\* by the synthetic one, and the second root has the issue of its package.
C15_Witness ==
  /\ orchestrator.call.kind = "all"
  /\ C15_Throws(WorkspaceRoots[1])
  /\ C15_OnlyRuntimeError(WorkspaceRoots[1])
  /\ WorkspaceRoots[1] \in DOMAIN orchestrator.call.before
  /\ orchestrator.call.before[WorkspaceRoots[1]] # <<>>
  /\ orchestrator.call.before[WorkspaceRoots[1]][1].code = "CES_UNSUPPORTED_IMPORT_DIRECTORY"
  /\ ~C15_Throws(WorkspaceRoots[2])
  /\ WorkspaceRoots[2] \in DOMAIN orchestrator.packageIssues
  /\ orchestrator.packageIssues[WorkspaceRoots[2]] # <<>>


(***************************************************************************)
(* Packages for the global-instruction rule: what the manifest declares as  *)
(* globalInstruction, and which files are there for it to name.             *)
(***************************************************************************)
\* The declared values: paths (present, missing, nested, with backslashes, absolute),
\* texts of more than one line, short and long texts of one line, a text of exactly
\* 20 and one of 21 characters, a padded path, a blank, a number, and no field.
GlobalInstructionChoices ==
  <<JStr("global_instruction.txt"),
    JStr("missing.txt"),
    JStr("agents/voice_banking_agent/instruction.txt"),
    JStr("agents\\voice_banking_agent\\instruction.txt"),
    JStr("docs/policy"),
    JStr("/pkg/global_instruction.txt"),
    JStr("Line one\nLine two"),
    JStr("policy\nnotes.txt"),
    JStr("a\r\nb"),
    JStr("Be kind"),
    JStr("policy"),
    JStr("abcdefghijklmnopqrst"),
    JStr("abcdefghijklmnopqrstu"),
    JStr("Always greet the caller by name."),
    JStr("Transfer to sales/support when asked."),
    JStr("  missing.txt\n"),
    JStr("   "),
    JNum(7),
    Undefined>>

InitGlobalInstruction ==
  \E g \in 1..Len(GlobalInstructionChoices), format \in {"yaml", "json"},
     instructionFile \in BOOLEAN, policyFile \in BOOLEAN :
    LET doc == AppManifest(JStr("voice_banking_agent"), GlobalInstructionChoices[g],
                           JArr(<<>>))
        WithManifest(tree) ==
          IF format = "yaml" THEN Put(tree, "app.yaml", YamlFile(doc))
          ELSE Put(Remove(tree, "app.yaml"), "app.json", JsonFile(doc))
        WithInstruction(tree) ==
          IF instructionFile THEN tree ELSE Remove(tree, "global_instruction.txt")
        WithPolicy(tree) ==
          IF policyFile THEN Put(tree, "policy", TextFile(<<"Be kind.">>)) ELSE tree
    IN  Fresh(WithPolicy(WithInstruction(WithManifest(BaseFixture))))

SpecGlobalInstruction == InitGlobalInstruction /\ [][validatePackageRoot]_vars

\* The manifest file of the package and the globalInstruction its document declares.
C16_ManifestName ==
  IF Walk(fs, <<"app.yaml">>).kind = "file" THEN "app.yaml" ELSE "app.json"

C16_Declared ==
  LET Of(node) == IF C16_ManifestName = "app.yaml" THEN node.yaml.value ELSE node.json.value
  IN  Get(Of(Walk(fs, <<C16_ManifestName>>)), "globalInstruction")

C16_MultiLine(s) == \E i \in 1..Len(s) : CharAt(s, i) \in {"\n", "\r"}

C16_Marked(s) == endsWith(s, ".txt") \/ \E i \in 1..Len(s) : CharAt(s, i) = "/"

\* The file or directory the value names, from the package root unless it is absolute.
C16_TargetExists(s) ==
  LET At(p) == Lookup(fs, IF startsWith(p, "/") THEN p ELSE rootPath \o "/" \o p)
  IN  At(ReplaceAll(s, "\\", "/")).kind # "none"

C16_Missing == {i \in 1..Len(issues) : issues[i].code = "CES_GLOBAL_INSTRUCTION_MISSING"}

\* C16: the global-instruction rule emits CES_GLOBAL_INSTRUCTION_MISSING (one error on
\* the manifest) exactly when globalInstruction is a non-blank string whose trimmed
\* value is on one line, and ends in .txt or contains a '/' or is at most 20
\* characters long, and the path it names does not exist; a value of more than one
\* line, and a value of one line longer than 20 characters with neither mark, is
\* taken for inline text and never checked.
C16_GlobalInstructionReference ==
  pc = "done" =>
    LET Checked(s) == /\ s # ""
                      /\ ~C16_MultiLine(s)
                      /\ C16_Marked(s) \/ Len(s) <= 20
        Expected(g) == g.t = "str" /\ Checked(trim(g.s)) /\ ~C16_TargetExists(trim(g.s))
    IN  /\ C16_Missing # {} <=> Expected(C16_Declared)
        /\ Cardinality(C16_Missing) <= 1
        /\ \A i \in C16_Missing :
             /\ issues[i].severity = "error"
             /\ issues[i].file = rootPath \o "/" \o C16_ManifestName

\* The statement with the value of more than one line among the file references and the
\* short value of one line among the inline texts.
C16_AsStated ==
  pc = "done" =>
    LET Holds(s) ==
          /\ (C16_MultiLine(s) \/ C16_Marked(s))
               => (C16_Missing # {} <=> ~C16_TargetExists(s))
          /\ (~C16_MultiLine(s) /\ ~C16_Marked(s) /\ Len(s) <= 20) => C16_Missing = {}
        Of(g) == (g.t = "str" /\ trim(g.s) # "") => Holds(trim(g.s))
    IN  Of(C16_Declared)

\* A short value of one line with neither mark, naming nothing, is reported missing.
C16_Witness ==
  /\ pc = "done"
  /\ C16_Declared = JStr("Be kind")
  /\ C16_Missing # {}


(***************************************************************************)
(* Packages for the instruction field of the agent manifests: what the two  *)
(* agents declare, and whether their instruction files are there.           *)
(***************************************************************************)
\* What an agent declares: the expected path, plain, with backslashes, padded, from
\* "./" and absolute; the other agent's file; a file that is not there; the agent's
\* folder; a bare file name; a blank; a number; null; and no field.
InstructionFieldChoices(name, other) ==
  <<JStr("agents/" \o name \o "/instruction.txt"),
    JStr("agents\\" \o name \o "\\instruction.txt"),
    JStr("  agents/" \o name \o "/instruction.txt\n"),
    JStr("./agents/" \o name \o "/instruction.txt"),
    JStr("/pkg/agents/" \o name \o "/instruction.txt"),
    JStr("agents/" \o other \o "/instruction.txt"),
    JStr("agents/" \o name \o "/prompt.txt"),
    JStr("agents/" \o name),
    JStr("instruction.txt"),
    JStr("  "),
    JNum(7),
    JNull,
    Undefined>>

\* The manifests of the second agent: three declarations, and a manifest that is a list.
ChildManifestChoices ==
  <<AgentManifest("location_services_agent", InstructionPathOf("location_services_agent"), <<>>),
    AgentManifest("location_services_agent", JStr("agents/location_services_agent/prompt.txt"),
                  <<>>),
    AgentManifest("location_services_agent", JStr(""), <<>>),
    JArr(<<JStr("instruction")>>)>>

InitAgentInstruction ==
  \E r \in 1..Len(InstructionFieldChoices("voice_banking_agent", "location_services_agent")),
     c \in 1..Len(ChildManifestChoices), rootFile \in BOOLEAN, childFile \in BOOLEAN :
    LET RootDoc(instruction) ==
          JObj(SelectSeq(<<KV("displayName", JStr("voice_banking_agent")),
                           KV("instruction", instruction),
                           KV("childAgents", JArr(<<JStr("location_services_agent")>>))>>,
                         LAMBDA kv : kv.v # Undefined))
        WithManifests(tree) ==
          Put(Put(tree, "agents/voice_banking_agent/voice_banking_agent.json",
                  JsonFile(RootDoc(InstructionFieldChoices("voice_banking_agent",
                                                           "location_services_agent")[r]))),
              "agents/location_services_agent/location_services_agent.json",
              JsonFile(ChildManifestChoices[c]))
        WithRootFile(tree) ==
          IF rootFile THEN tree ELSE Remove(tree, "agents/voice_banking_agent/instruction.txt")
        WithChildFile(tree) ==
          IF childFile THEN tree
          ELSE Remove(tree, "agents/location_services_agent/instruction.txt")
    IN  Fresh(WithChildFile(WithRootFile(WithManifests(BaseFixture))))

SpecAgentInstruction == InitAgentInstruction /\ [][validatePackageRoot]_vars

\* The agent folders of the package and the document of an agent's manifest.
C17_Agents ==
  LET Of(node) == IF node.kind # "dir" THEN {}
                  ELSE {e.name : e \in {x \in Range(node.entries) : x.node.kind = "dir"}}
  IN  Of(Walk(fs, <<"agents">>))

C17_ManifestDoc(name) == Walk(fs, <<"agents", name, name \o ".json">>).json.value

\* The issues of a code on the manifest of the agent.
C17_Issues(name, code) ==
  {i \in 1..Len(issues) :
     /\ issues[i].code = code
     /\ issues[i].file = rootPath \o "/agents/" \o name \o "/" \o name \o ".json"}

C17_Exists(p) == Lookup(fs, IF startsWith(p, "/") THEN p ELSE rootPath \o "/" \o p).kind # "none"

\* C17: for every agent with a record manifest, CES_AGENT_INSTRUCTION_MISSING is
\* emitted iff the instruction field is absent, not a string or blank, and then
\* neither CES_AGENT_INSTRUCTION_PATH_MISMATCH nor CES_AGENT_INSTRUCTION_FILE_MISSING
\* is; otherwise the path mismatch is emitted iff the trimmed value with '/' for
\* every backslash differs from agents/<name>/instruction.txt, and the missing file
\* iff the declared path does not exist, each decided without regard to the other.
\* Each of the three is an error, at most once for an agent.
C17_InstructionField ==
  pc = "done" =>
    \A name \in C17_Agents :
      LET Missing == C17_Issues(name, "CES_AGENT_INSTRUCTION_MISSING")
          Mismatch == C17_Issues(name, "CES_AGENT_INSTRUCTION_PATH_MISMATCH")
          FileMissing == C17_Issues(name, "CES_AGENT_INSTRUCTION_FILE_MISSING")
          Declared(p) ==
            /\ Missing = {}
            /\ Mismatch # {} <=> p # "agents/" \o name \o "/instruction.txt"
            /\ FileMissing # {} <=> ~C17_Exists(p)
          Field(instruction) ==
            IF instruction.t # "str" \/ trim(instruction.s) = ""
            THEN Missing # {} /\ Mismatch = {} /\ FileMissing = {}
            ELSE Declared(ReplaceAll(trim(instruction.s), "\\", "/"))
      IN  /\ \A i \in Missing \cup Mismatch \cup FileMissing : issues[i].severity = "error"
          /\ Cardinality(Missing) <= 1 /\ Cardinality(Mismatch) <= 1
          /\ Cardinality(FileMissing) <= 1
          /\ IF C17_ManifestDoc(name).t = "obj"
             THEN Field(Get(C17_ManifestDoc(name), "instruction"))
             ELSE Missing = {} /\ Mismatch = {} /\ FileMissing = {}

\* An agent gets the path mismatch and the missing file together, while the other
\* agent, declaring a blank, gets the missing field.
C17_Witness ==
  /\ pc = "done"
  /\ C17_Issues("voice_banking_agent", "CES_AGENT_INSTRUCTION_PATH_MISMATCH") # {}
  /\ C17_Issues("voice_banking_agent", "CES_AGENT_INSTRUCTION_FILE_MISSING") # {}
  /\ C17_Issues("location_services_agent", "CES_AGENT_INSTRUCTION_MISSING") # {}


(***************************************************************************)
(* Packages for the schema of a toolset: what the manifest declares, what   *)
(* is at open_api_toolset, and whether the declared file is there.  The     *)
(* schema files differ in their defects, so that the issues tell which      *)
(* file was parsed.                                                         *)
(***************************************************************************)
VersionlessSchemaFile == YamlFile(JObj(<<KV("info", JStr("Location API"))>>))

ToolsetManifestOf(openApiToolset) ==
  JsonFile(JObj(SelectSeq(<<KV("displayName", JStr("location")),
                            KV("openApiToolset", openApiToolset)>>,
                          LAMBDA kv : kv.v # Undefined)))

DeclaredSchema(openApiSchema) ==
  ToolsetManifestOf(JObj(<<KV("openApiSchema", openApiSchema)>>))

\* What is at toolsets/location/location.json: nothing; a malformed file; a manifest
\* without openApiToolset, with one that is no record, with one that declares no
\* string or the empty string; and manifests that declare the file the directory
\* holds, another file, that file with backslashes or from the root of the file
\* system, a file that is nowhere, and the directory itself.
ToolsetManifestChoices ==
  <<NoNode,
    MalformedFile,
    ToolsetManifestOf(Undefined),
    ToolsetManifestOf(JStr("toolsets/location/custom.yaml")),
    DeclaredSchema(JNum(7)),
    DeclaredSchema(JStr("")),
    DeclaredSchema(JStr("toolsets/location/open_api_toolset/open_api_schema.yaml")),
    DeclaredSchema(JStr("toolsets/location/custom.yaml")),
    DeclaredSchema(JStr("toolsets\\location\\custom.yaml")),
    DeclaredSchema(JStr("/pkg/toolsets/location/custom.yaml")),
    DeclaredSchema(JStr("toolsets/location/missing.yaml")),
    DeclaredSchema(JStr("toolsets/location/open_api_toolset"))>>

\* What is at toolsets/location/open_api_toolset: nothing; a file; an empty directory;
\* a directory with no schema file; with a schema that lacks its version; with a
\* sound schema; with a note before a schema in upper-case extension.
OpenApiDirChoices ==
  <<NoNode,
    TextFile(<<"not a directory">>),
    Dir(<<>>),
    Dir(<<Entry("README.md", TextFile(<<"notes">>))>>),
    Dir(<<Entry("open_api_schema.yaml", VersionlessSchemaFile)>>),
    Dir(<<Entry("open_api_schema.yaml", SchemaFile)>>),
    Dir(<<Entry("README.md", TextFile(<<"notes">>)),
          Entry("schema.YML", VersionlessSchemaFile),
          Entry("zz.json", JsonFile(SchemaDoc))>>)>>

\* What is at toolsets/location/custom.yaml: nothing, a malformed file, a sound schema.
CustomSchemaChoices == <<NoNode, MalformedFile, SchemaFile>>

\* A second toolset: none, or one with an empty open_api_toolset directory.
BillingChoices ==
  <<NoNode,
    Dir(<<Entry("billing.json", JsonFile(JObj(<<KV("displayName", JStr("billing"))>>))),
          Entry("open_api_toolset", Dir(<<>>))>>)>>

InitToolsetSchema ==
  \E t \in 1..Len(ToolsetManifestChoices), d \in 1..Len(OpenApiDirChoices),
     c \in 1..Len(CustomSchemaChoices), b \in 1..Len(BillingChoices) :
    LET At(tree, relativePath, node) ==
          IF node = NoNode THEN Remove(tree, relativePath) ELSE Put(tree, relativePath, node)
    IN  Fresh(At(At(At(At(BaseFixture,
                          "toolsets/location/location.json", ToolsetManifestChoices[t]),
                       "toolsets/location/open_api_toolset", OpenApiDirChoices[d]),
                    "toolsets/location/custom.yaml", CustomSchemaChoices[c]),
                 "toolsets/billing", BillingChoices[b]))

SpecToolsetSchema == InitToolsetSchema /\ [][validatePackageRoot]_vars

C18_Toolsets ==
  LET Of(node) == IF node.kind # "dir" THEN {}
                  ELSE {e.name : e \in {x \in Range(node.entries) : x.node.kind = "dir"}}
  IN  Of(Walk(fs, <<"toolsets">>))

C18_ManifestPath(name) == rootPath \o "/toolsets/" \o name \o "/" \o name \o ".json"

\* The manifest cannot be read as JSON, or is not there.
C18_ManifestError(name) ==
  LET Of(node) == node.kind # "file" \/ ~node.json.ok
  IN  Of(Lookup(fs, C18_ManifestPath(name)))

\* The path the manifest declares, from the root of the file system; "" when it
\* declares none.
C18_Declared(name) ==
  LET Path(p) == IF startsWith(p, "/") THEN p ELSE rootPath \o "/" \o p
      Schema(s) == IF s.t = "str" /\ s.s # "" THEN Path(ReplaceAll(s.s, "\\", "/")) ELSE ""
      Toolset(o) == IF o.t = "obj" THEN Schema(Get(o, "openApiSchema")) ELSE ""
      Doc(v) == IF v.t = "obj" THEN Toolset(Get(v, "openApiToolset")) ELSE ""
  IN  Doc(Lookup(fs, C18_ManifestPath(name)).json.value)

C18_OpenApiDir(name) == Walk(fs, <<"toolsets", name, "open_api_toolset">>)

\* The first file of the directory, in listing order, with a schema extension.
C18_AutoDetected(name) ==
  LET IsSchema(e) == /\ e.node.kind = "file"
                     /\ \E x \in {".yaml", ".yml", ".json"} : endsWith(toLowerCase(e.name), x)
      First(es, found) ==
        IF found = {} THEN ""
        ELSE rootPath \o "/toolsets/" \o name \o "/open_api_toolset/"
             \o es[CHOOSE i \in found : \A j \in found : i <= j].name
      Of(node) == IF node.kind # "dir" THEN ""
                  ELSE First(node.entries,
                             {i \in 1..Len(node.entries) : IsSchema(node.entries[i])})
  IN  Of(C18_OpenApiDir(name))

\* The file parsed for the toolset; "" when none is.
C18_Parsed(name) ==
  IF C18_ManifestError(name) THEN ""
  ELSE IF C18_Declared(name) # ""
  THEN (IF Lookup(fs, C18_Declared(name)).kind # "none" THEN C18_Declared(name) ELSE "")
  ELSE C18_AutoDetected(name)

\* What parsing the file as a schema finds wrong with it; "" when nothing.
C18_Defect(p) ==
  LET Json == endsWith(toLowerCase(p), ".json")
      Yaml == endsWith(toLowerCase(p), ".yaml") \/ endsWith(toLowerCase(p), ".yml")
      Root(v) ==
        IF v.t # "obj" THEN "CES_OPENAPI_INVALID_ROOT"
        ELSE IF ~HasKey(v, "openapi") /\ ~HasKey(v, "swagger")
        THEN "CES_OPENAPI_VERSION_MISSING"
        ELSE ""
      Of(node) ==
        IF node.kind # "file" \/ ~(Json \/ Yaml) THEN "CES_OPENAPI_PARSE_ERROR"
        ELSE IF Json THEN (IF node.json.ok THEN Root(node.json.value)
                           ELSE "CES_OPENAPI_PARSE_ERROR")
        ELSE IF node.yaml.ok THEN Root(node.yaml.value) ELSE "CES_OPENAPI_PARSE_ERROR"
  IN  Of(Lookup(fs, p))

C18_ParseCodes ==
  {"CES_OPENAPI_PARSE_ERROR", "CES_OPENAPI_INVALID_ROOT", "CES_OPENAPI_VERSION_MISSING"}

\* The issues of a code on a file.
C18_On(file, code) == {i \in 1..Len(issues) : issues[i].code = code /\ issues[i].file = file}

\* The parse issues on the files in and below the folder of the toolset.
C18_ParseIssues(name) ==
  {i \in 1..Len(issues) :
     /\ issues[i].code \in C18_ParseCodes
     /\ startsWith(issues[i].file, rootPath \o "/toolsets/" \o name \o "/")}

\* C18: for each toolset whose manifest has no error: CES_OPENAPI_SCHEMA_MISSING is
\* emitted iff the manifest declares an openApiSchema path that does not exist, and
\* then no schema file is parsed for the toolset, the auto-detected file included;
\* a declared path that exists is the file parsed; with nothing declared the
\* auto-detected file is the one parsed; CES_OPENAPI_SCHEMA_NOT_FOUND is emitted iff
\* the open_api_toolset directory exists and no schema path was resolved.  A toolset
\* with a manifest error gets CES_TOOLSET_MANIFEST_INVALID and no schema issue.  (The
\* file parsed shows in the parse issues: they are on that file and are what its
\* defect calls for.)
C18_SchemaResolution ==
  pc = "done" =>
    \A name \in C18_Toolsets :
      LET Missing == C18_On(C18_ManifestPath(name), "CES_OPENAPI_SCHEMA_MISSING")
          NotFound == C18_On(C18_ManifestPath(name), "CES_OPENAPI_SCHEMA_NOT_FOUND")
          Invalid == C18_On(C18_ManifestPath(name), "CES_TOOLSET_MANIFEST_INVALID")
          OfParsed(p) ==
            IF p = "" \/ C18_Defect(p) = "" THEN C18_ParseIssues(name) = {}
            ELSE /\ C18_ParseIssues(name) = C18_On(p, C18_Defect(p))
                 /\ Cardinality(C18_ParseIssues(name)) = 1
      IN  IF C18_ManifestError(name)
          THEN /\ Cardinality(Invalid) = 1
               /\ Missing = {} /\ NotFound = {} /\ C18_ParseIssues(name) = {}
          ELSE /\ Invalid = {}
               /\ Missing # {} <=> (/\ C18_Declared(name) # ""
                                    /\ Lookup(fs, C18_Declared(name)).kind = "none")
               /\ NotFound # {} <=> (C18_OpenApiDir(name).kind = "dir" /\ C18_Parsed(name) = "")
               /\ Cardinality(Missing) <= 1 /\ Cardinality(NotFound) <= 1
               /\ \A i \in Missing \cup NotFound : issues[i].severity = "error"
               /\ OfParsed(C18_Parsed(name))

\* The declared file is nowhere while the directory holds a schema without version:
\* the missing file is reported, the schema in the directory is not parsed, and the
\* directory counts as one without schema.
C18_Witness ==
  /\ pc = "done"
  /\ ~C18_ManifestError("location")
  /\ C18_Declared("location") = rootPath \o "/toolsets/location/missing.yaml"
  /\ C18_AutoDetected("location") # ""
  /\ C18_Defect(C18_AutoDetected("location")) # ""
  /\ C18_On(C18_ManifestPath("location"), "CES_OPENAPI_SCHEMA_MISSING") # {}
  /\ C18_ParseIssues("location") = {}


\* The direct tools of the model in the order the message lists them: each before
\* the next by the default comparison of sort().
C19_Listings ==
  {s \in [1..Cardinality(model.directTools) -> model.directTools] :
     /\ Range(s) = model.directTools
     /\ \A k \in 1..(Len(s) - 1) : DefaultCompare(s[k], s[k + 1]) < 0}

\* What the rule is to do with a tool name that is no OpenAPI operation: the error, with
\* the sorted direct tools at the end of its message, exactly when there are direct
\* tools and the name is none of them.
C19_UnknownIff(evalInfo, turn, toolName) ==
  LET Unknown == C2_Emitted("CES_EVALUATION_TOOLCALL_UNKNOWN", evalInfo, turn, toolName)
  IN  /\ Unknown # {} <=> (model.directTools # {} /\ toolName \notin model.directTools)
      /\ \A i \in Unknown :
           /\ issues[i].severity = "error"
           /\ \E s \in C19_Listings :
                endsWith(issues[i].message, "Known tools: [" \o join(s, ", ") \o "]")
      /\ C2_Emitted("CES_EVALUATION_TOOLCALL_OPENAPI_OPERATION", evalInfo, turn, toolName) = {}

\* C19: for every non-blank string tool name of a toolCall expectation of an
\* evaluation that is not in openApiOperations, CES_EVALUATION_TOOLCALL_UNKNOWN (an
\* error whose message lists the direct tools in sorted order) is emitted iff
\* directTools is non-empty and does not contain the name; with directTools empty, or
\* containing the name, no issue is emitted for the tool call.  A blank name gets no
\* issue whatever directTools holds.
C19_UnknownToolCall ==
  pc = "done" =>
    \A e \in 1..Len(model.evaluationInfos) :
      \A named \in C2_ToolNames(model.evaluationInfos[e].manifestData) :
        IF trim(named[2]) = ""
        THEN \A i \in 1..Len(issues) :
               issues[i].code \notin {"CES_EVALUATION_TOOLCALL_UNKNOWN",
                                      "CES_EVALUATION_TOOLCALL_OPENAPI_OPERATION"}
               \/ ~includes(issues[i].message, "toolCall '" \o named[2] \o "'")
        ELSE named[2] \notin model.openApiOperations
               => C19_UnknownIff(model.evaluationInfos[e], named[1], named[2])

\* The statement for every string tool name, the blank ones included.
C19_AsStated ==
  pc = "done" =>
    \A e \in 1..Len(model.evaluationInfos) :
      \A named \in C2_ToolNames(model.evaluationInfos[e].manifestData) :
        named[2] \notin model.openApiOperations
          => C19_UnknownIff(model.evaluationInfos[e], named[1], named[2])

\* With two direct tools, declared in another order than the sorted one, an
\* evaluation expects a call of a name that is neither a direct tool nor an operation.
C19_Witness ==
  /\ pc = "done"
  /\ model.directTools = {"lookup", "get_branches"}
  /\ "end_session" \notin model.openApiOperations
  /\ \E i \in 1..Len(issues) :
       /\ issues[i].code = "CES_EVALUATION_TOOLCALL_UNKNOWN"
       /\ includes(issues[i].message, "toolCall 'end_session'")
       /\ endsWith(issues[i].message, "Known tools: [get_branches, lookup]")


(***************************************************************************)
(* Packages for the references of the instructions: the lines of the root   *)
(* agent's instruction, the global instruction, the tools list of the root  *)
(* agent, and an agent folder with the reserved name.                       *)
(***************************************************************************)
\* Lines with references: none; a known agent; two unknown agents; two tools; the
\* same unknown agent twice; markers that are no reference beside one with a blank
\* name; an agent named like a tool beside a tool named like an agent.
ReferenceLineChoices ==
  <<"<role>Route the caller.</role>",
    "Hand over to {@AGENT: location_services_agent}.",
    "Hand over to {@AGENT: billing_agent} or {@AGENT:ghost}.",
    "Use {@TOOL: lookup} then {@TOOL:end_session }.",
    "{@AGENT: ghost} and again {@AGENT: ghost }",
    "{@TOOL:} {@AGENT: } {@agent: ghost} {@TOOL: lookup",
    "{@AGENT: lookup} {@TOOL: voice_banking_agent}">>

\* What is at global_instruction.txt: the accepted text; references to nothing known in
\* a section left open; a file that cannot be read; a directory.
GlobalInstructionFileChoices ==
  <<TextFile(<<"Global instruction text for package.">>),
    TextFile(<<"<persona>", "{@AGENT: ghost} {@TOOL: ghost_tool}", "<examples>",
               "ghost.call(now)", "ghostCall(now)">>),
    Unreadable(TextFile(<<"{@AGENT: ghost}">>)),
    Dir(<<>>)>>

ReferenceToolsChoices == <<Undefined, Strings(<<"lookup">>)>>

InitReferences ==
  \/ \E n \in 1..2, g \in 1..Len(GlobalInstructionFileChoices),
        t \in 1..Len(ReferenceToolsChoices) :
       \E choice \in [1..n -> 1..Len(ReferenceLineChoices)] :
         Fresh(Put(Put(WithAgentTools(BaseFixture, ReferenceToolsChoices[t]),
                       "global_instruction.txt", GlobalInstructionFileChoices[g]),
                   VoiceInstruction,
                   TextFile([i \in 1..n |-> ReferenceLineChoices[choice[i]]])))
  \/ \E l \in 1..Len(ReferenceLineChoices), t \in 1..Len(ReferenceToolsChoices) :
       Fresh(WithAgentTools(ReservedAgent(TextFile(<<"<role>", ReferenceLineChoices[l]>>)),
                            ReferenceToolsChoices[t]))

SpecReferences == InitReferences /\ [][validatePackageRoot]_vars

\* The names a line refers to, in the order of the line: the text between "{@AGENT:"
\* (or "{@TOOL:") and the next "}", without the blanks around it.
C20_AgentRefs(line) ==
  CASE line = "Hand over to {@AGENT: location_services_agent}." -> <<"location_services_agent">>
    [] line = "Hand over to {@AGENT: billing_agent} or {@AGENT:ghost}."
         -> <<"billing_agent", "ghost">>
    [] line = "{@AGENT: ghost} and again {@AGENT: ghost }" -> <<"ghost", "ghost">>
    [] line = "{@TOOL:} {@AGENT: } {@agent: ghost} {@TOOL: lookup" -> <<"">>
    [] line = "{@AGENT: lookup} {@TOOL: voice_banking_agent}" -> <<"lookup">>
    [] line = "{@AGENT: ghost} {@TOOL: ghost_tool}" -> <<"ghost">>
    [] line = "{@AGENT: ghost}" -> <<"ghost">>
    [] OTHER -> <<>>

C20_ToolRefs(line) ==
  CASE line = "Use {@TOOL: lookup} then {@TOOL:end_session }." -> <<"lookup", "end_session">>
    [] line = "{@AGENT: lookup} {@TOOL: voice_banking_agent}" -> <<"voice_banking_agent">>
    [] line = "{@AGENT: ghost} {@TOOL: ghost_tool}" -> <<"ghost_tool">>
    [] OTHER -> <<>>

C20_Count(names, name) == Cardinality({k \in 1..Len(names) : names[k] = name})

\* The issues of the code on the file for the name at the line.
C20_Issues(code, file, line, kind, name) ==
  {i \in 1..Len(issues) :
     /\ issues[i].code = code
     /\ issues[i].file = file
     /\ issues[i].line = line
     /\ includes(issues[i].message, "unknown " \o kind \o " '" \o name \o "' at line")}

\* The lines of the instruction file of an agent; none when it cannot be read.
C20_Lines(name) ==
  LET Of(node) == IF node.kind = "file" /\ node.readable THEN node.lines ELSE <<>>
  IN  Of(Walk(fs, <<"agents", name, "instruction.txt">>))

C20_InstructionPath(name) == rootPath \o "/agents/" \o name \o "/instruction.txt"

\* The issues on the file whose code is one of the instruction rule's.
C20_InstructionIssues(file) ==
  {i \in 1..Len(issues) :
     issues[i].file = file /\ startsWith(issues[i].code, "CES_INSTRUCTION_")}

CallLineChoices ==
  <<"location.getBranches(city)",
    "billing.getInvoice(id)",
    "end_session()",
    "getBalance(account) then location.find(x)",
    "end_session.run(now)",
    "ghost.a.b(x) and ghost.a.b(y)",
    "location.(x) ghost.(y)",
    "name(x) lookup(y)">>

CallToolsChoices ==
  <<Undefined, Strings(<<"end_session">>), Strings(<<"getBalance", "billing", "ghost">>)>>

InitToolCalls ==
  \E n \in 1..2, t \in 1..Len(CallToolsChoices), b \in 1..Len(BillingChoices) :
    \E choice \in [1..n -> 1..Len(CallLineChoices)] :
      LET WithBilling(tree) ==
            IF BillingChoices[b] = NoNode THEN tree
            ELSE Put(tree, "toolsets/billing", BillingChoices[b])
      IN  Fresh(Put(WithBilling(WithAgentTools(BaseFixture, CallToolsChoices[t])),
                    VoiceInstruction,
                    TextFile(<<"<role>Route the caller.</role>", "<examples>">>
                             \o [i \in 1..n |-> CallLineChoices[choice[i]]]
                             \o <<"</examples>">>)))

SpecToolCalls == InitToolCalls /\ [][validatePackageRoot]_vars

\* The operations called on a line of an examples section, in the order of the line:
\* the identifiers (letters, digits, '_' and '.', not starting with a digit or a dot)
\* that an argument list follows and the filter lets pass.
C21_Calls(line) ==
  CASE line = "location.getBranches(city)" -> <<"location.getBranches">>
    [] line = "billing.getInvoice(id)" -> <<"billing.getInvoice">>
    [] line = "end_session()" -> <<"end_session">>
    [] line = "getBalance(account) then location.find(x)" -> <<"getBalance", "location.find">>
    [] line = "end_session.run(now)" -> <<"end_session.run">>
    [] line = "ghost.a.b(x) and ghost.a.b(y)" -> <<"ghost.a.b", "ghost.a.b">>
    [] line = "location.(x) ghost.(y)" -> <<"location.", "ghost.">>
    [] OTHER -> <<>>

C21_Qualified(operation) == \E i \in 1..Len(operation) : CharAt(operation, i) = "."

\* The part of a qualified operation before its first '.'.
C21_Prefix(operation) ==
  SubSeq(operation, 1,
         (CHOOSE i \in 1..Len(operation) :
            /\ CharAt(operation, i) = "."
            /\ \A j \in 1..(i - 1) : CharAt(operation, j) # ".") - 1)

\* The issues of the code on the file for the operation called at the line.
C21_Issues(code, file, line, operation) ==
  {i \in 1..Len(issues) :
     /\ issues[i].code = code
     /\ issues[i].file = file
     /\ issues[i].line = line
     /\ includes(issues[i].message, "tool_call '" \o operation \o "' ")}

C21_Codes ==
  {"CES_INSTRUCTION_TOOLCALL_UNKNOWN_TOOLSET", "CES_INSTRUCTION_TOOLCALL_UNKNOWN_TOOL"}

\* C21: for every call expression extracted from the instruction of an agent: if the
\* operation contains a '.', one CES_INSTRUCTION_TOOLCALL_UNKNOWN_TOOLSET warning is
\* emitted for it iff the part before the first '.' is no toolset folder, and no
\* CES_INSTRUCTION_TOOLCALL_UNKNOWN_TOOL; if it contains none, one
\* CES_INSTRUCTION_TOOLCALL_UNKNOWN_TOOL warning is emitted iff directTools is
\* non-empty and does not contain the name, and no ..._UNKNOWN_TOOLSET.  The issue is
\* at the line of the call, and the two codes appear on the file for nothing else.
C21_CallExpressions ==
  pc = "done" =>
    \A a \in C17_Agents \ {"__global__"} :
      LET Count(code, l, op) == Cardinality(C21_Issues(code, C20_InstructionPath(a), l, op))
          Call(l, ops, op) ==
            IF C21_Qualified(op)
            THEN /\ Count("CES_INSTRUCTION_TOOLCALL_UNKNOWN_TOOLSET", l, op)
                      = IF C21_Prefix(op) \in C18_Toolsets THEN 0 ELSE C20_Count(ops, op)
                 /\ Count("CES_INSTRUCTION_TOOLCALL_UNKNOWN_TOOL", l, op) = 0
            ELSE /\ Count("CES_INSTRUCTION_TOOLCALL_UNKNOWN_TOOL", l, op)
                      = IF model.directTools # {} /\ op \notin model.directTools
                        THEN C20_Count(ops, op) ELSE 0
                 /\ Count("CES_INSTRUCTION_TOOLCALL_UNKNOWN_TOOLSET", l, op) = 0
          Accounted(i, lines) ==
            /\ issues[i].severity = "warning"
            /\ \E l \in 1..Len(lines) :
                 \E op \in Range(C21_Calls(lines[l])) :
                   i \in C21_Issues(issues[i].code, C20_InstructionPath(a), l, op)
      IN  /\ \A l \in 1..Len(C20_Lines(a)) :
               \A op \in Range(C21_Calls(C20_Lines(a)[l])) :
                 Call(l, C21_Calls(C20_Lines(a)[l]), op)
          /\ \A i \in 1..Len(issues) :
               (issues[i].file = C20_InstructionPath(a) /\ issues[i].code \in C21_Codes)
                 => Accounted(i, C20_Lines(a))

\* With direct tools that hold neither end_session nor location, the examples call
\* end_session.run and getBalance: the first gets the unknown toolset, and the second,
\* a direct tool, nothing; a call of a known toolset whose name is no direct tool
\* gets nothing either.
C21_Witness ==
  /\ pc = "done"
  /\ model.directTools = {"getBalance", "billing", "ghost"}
  /\ C20_Lines("voice_banking_agent")[3] = "end_session.run(now)"
  /\ C20_Lines("voice_banking_agent")[4] = "getBalance(account) then location.find(x)"
  /\ C21_Issues("CES_INSTRUCTION_TOOLCALL_UNKNOWN_TOOLSET",
                C20_InstructionPath("voice_banking_agent"), 3, "end_session.run") # {}
  /\ \A i \in 1..Len(issues) : issues[i].line = 4 => issues[i].code \notin C21_Codes


(***************************************************************************)
(* Packages for the required section: the lines of the root agent's         *)
(* instruction, with the markers of <role> at the start, in the middle and  *)
(* at the end of a line.                                                    *)
(***************************************************************************)
SectionLineChoices ==
  <<"<role>", "</role>", "  <ROLE>Be kind.</Role>", "Intro: <role>Be kind.</role>",
    "</persona></role>", "<persona>", "Be kind. </role> Be brief.">>

InitSections ==
  \/ \E n \in 1..3 :
       \E choice \in [1..n -> 1..Len(SectionLineChoices)] :
         Fresh(Put(BaseFixture, VoiceInstruction,
                   TextFile([i \in 1..n |-> SectionLineChoices[choice[i]]])))
  \/ \E tree \in {Put(BaseFixture, VoiceInstruction,
                      Unreadable(TextFile(RoleOnly("Root agent instruction")))),
                  Remove(BaseFixture, VoiceInstruction)} :
       Fresh(tree)

SpecSections == InitSections /\ [][validatePackageRoot]_vars

\* A role section is recorded: a line opens it (its marker at the start of the line,
\* leading blanks aside) and that line or a later one has its closing marker as the
\* first closing marker of the line.
C22_RoleRecorded(lines) ==
  \E i \in 1..Len(lines) :
    /\ "role" \in C6_Opened(lines[i])
    /\ \E j \in i..Len(lines) : "role" \in C6_FirstCloserOn(lines[j])

\* The text has <role> and, after it, </role>, wherever on their lines.
C22_ContainsRole(lines) ==
  \E i \in 1..Len(lines) :
    \E j \in i..Len(lines) :
      /\ includes(toLowerCase(lines[i]), "<role>")
      /\ includes(toLowerCase(lines[j]), "</role>")
      /\ i = j => indexOf(toLowerCase(lines[i]), "<role>")
                    < indexOf(toLowerCase(lines[i]), "</role>")

C22_MissingRole(name) ==
  {i \in 1..Len(issues) :
     /\ issues[i].code = "CES_INSTRUCTION_MISSING_SECTION"
     /\ issues[i].file = C20_InstructionPath(name)
     /\ includes(issues[i].message, "<role>")}

\* The agents that have an instruction entry: those with something at instruction.txt.
C22_Entries ==
  {a \in C17_Agents \ {"__global__"} :
     Walk(fs, <<"agents", a, "instruction.txt">>).kind # "none"}

\* C22: for every instruction entry of an agent, one CES_INSTRUCTION_MISSING_SECTION
\* warning naming <role> is emitted iff no role section was recorded, that is, unless
\* some line starts (leading blanks aside) with <role> and that line or a later one
\* has </role> as its first closing marker; such an instruction, spread over several
\* lines or on one, gets no warning whatever other sections it has; an instruction
\* that cannot be read gets the warning, an agent without instruction file none.
C22_RequiredSection ==
  pc = "done" =>
    /\ \A a \in C22_Entries :
         /\ C22_MissingRole(a) # {} <=> ~C22_RoleRecorded(C20_Lines(a))
         /\ Cardinality(C22_MissingRole(a)) <= 1
         /\ \A i \in C22_MissingRole(a) : issues[i].severity = "warning"
    /\ \A a \in C17_Agents \ C22_Entries : C22_MissingRole(a) = {}

\* The statement with every text that has <role> before </role> free of the warning.
C22_AsStated ==
  pc = "done" =>
    \A a \in C22_Entries :
      /\ C22_MissingRole(a) # {} <=> ~C22_RoleRecorded(C20_Lines(a))
      /\ C22_ContainsRole(C20_Lines(a)) => C22_MissingRole(a) = {}

\* An instruction with <role> opened on one line and closed on a later one beside an
\* unclosed <persona> gets no warning, and in the same package the other agent's
\* instruction is accepted.
C22_Witness ==
  /\ pc = "done"
  /\ C20_Lines("voice_banking_agent") = <<"<role>", "<persona>", "Be kind. </role> Be brief.">>
  /\ C22_MissingRole("voice_banking_agent") = {}
  /\ \E i \in 1..Len(issues) : issues[i].code = "CES_INSTRUCTION_PARSE_ERROR"


(***************************************************************************)
(* Packages for the closing markers: instructions of up to four lines of    *)
(* opening and closing markers of two sections.                             *)
(***************************************************************************)
ClosingLineChoices == <<"<role>", "</role>", "<persona>", "</persona>", "</persona></role>">>

InitClosing ==
  \E n \in 1..4 :
    \E choice \in [1..n -> 1..Len(ClosingLineChoices)] :
      Fresh(Put(BaseFixture, VoiceInstruction,
                TextFile([i \in 1..n |-> ClosingLineChoices[choice[i]]])))

SpecClosing == InitClosing /\ [][validatePackageRoot]_vars

\* The sections the parser is to record for a text, in the order of their closing
\* lines, with for every section name the lines on which it is open kept apart: a
\* line first opens the section whose marker it starts with, then its first closing
\* marker closes the latest opening of that name, if there is one.
RECURSIVE C23_Recorded(_, _, _, _)
C23_Recorded(lines, i, open, recorded) ==
  IF i > Len(lines) THEN [sections |-> recorded, open |-> open]
  ELSE LET opened == [n \in SectionNames |->
                        IF n \in C6_Opened(lines[i]) THEN Append(open[n], i) ELSE open[n]]
           Closes(n) == n \in C6_FirstCloserOn(lines[i]) /\ opened[n] # <<>>
           closed == [n \in SectionNames |->
                        IF Closes(n) THEN SubSeq(opened[n], 1, Len(opened[n]) - 1)
                        ELSE opened[n]]
           added == IF \E n \in SectionNames : Closes(n)
                    THEN LET n == CHOOSE n \in SectionNames : Closes(n)
                         IN  <<[name |-> n, startLine |-> opened[n][Len(opened[n])],
                                endLine |-> i]>>
                    ELSE <<>>
       IN  C23_Recorded(lines, i + 1, closed, recorded \o added)

C23_Parsed(lines) == C23_Recorded(lines, 1, [n \in SectionNames |-> <<>>], <<>>)

\* C23: for every instruction that can be read, the section list of the parser is
\* the one in which each closing marker read (the first of its line) closes the most
\* recently opened still-open section of its own name, recorded with that opening's
\* line and the line of the closing marker (startLine <= endLine), sections of other
\* names staying open even when opened later, and a closing marker with no open
\* section of its name adding and removing nothing; what stays open to the end is what
\* the parse error names.
C23_ClosingMarker ==
  pc = "done" =>
    \A k \in 1..Len(model.instructionInfos) :
      LET Same(info, lines, parsed) ==
            /\ info.sections = parsed.sections
            /\ \A s \in Range(info.sections) : s.startLine <= s.endLine
            /\ info.agentName # "__global__" =>
                 C6_Reported(info.filePath,
                             UNION {{<<n, l>> : l \in Range(parsed.open[n])}
                                    : n \in SectionNames})
          Check(info, node) ==
            (node.kind = "file" /\ node.readable) =>
              Same(info, node.lines, C23_Parsed(node.lines))
      IN  Check(model.instructionInfos[k], Lookup(fs, model.instructionInfos[k].filePath))

\* <role> is opened, then <persona>, then </role> is read and then </persona>: the
\* role section of lines 1 to 3 is recorded while <persona>, opened later, stays open
\* until its own marker closes it.
C23_Witness ==
  /\ pc = "done"
  /\ \E k \in 1..Len(model.instructionInfos) :
       /\ Lookup(fs, model.instructionInfos[k].filePath).kind = "file"
       /\ Lookup(fs, model.instructionInfos[k].filePath).lines
            = <<"<role>", "<persona>", "</role>", "</persona>">>
       /\ model.instructionInfos[k].sections
            = <<[name |-> "role", startLine |-> 1, endLine |-> 3],
                [name |-> "persona", startLine |-> 2, endLine |-> 4]>>
       /\ C6_ParseErrors(model.instructionInfos[k].filePath) = {}


(***************************************************************************)
(* Packages for the call expressions of the examples section: instructions  *)
(* of up to three lines with calls before, on and after the markers of the  *)
(* section.                                                                 *)
(***************************************************************************)
ExamplesLineChoices ==
  <<"<examples>", "</examples>", "location.find(x)", "<examples> billing.pay(x)",
    "ghost.run(y) </examples>", "<examples>solo.call(z)</examples>">>

InitExamples ==
  \E n \in 1..3 :
    \E choice \in [1..n -> 1..Len(ExamplesLineChoices)] :
      Fresh(Put(BaseFixture, VoiceInstruction,
                TextFile([i \in 1..n |-> ExamplesLineChoices[choice[i]]])))

SpecExamples == InitExamples /\ [][validatePackageRoot]_vars

\* The calls on a line that pass the filter, in the order of the line.
C24_Calls(line) ==
  CASE line = "location.find(x)" -> <<"location.find">>
    [] line = "<examples> billing.pay(x)" -> <<"billing.pay">>
    [] line = "ghost.run(y) </examples>" -> <<"ghost.run">>
    [] line = "<examples>solo.call(z)</examples>" -> <<"solo.call">>
    [] OTHER -> <<>>

\* The openings of the examples section that are still open after the first l lines.
C24_OpenAfter(lines, l) ==
  C6_StillOpen(SubSeq(lines, 1, l), 1, "examples", C6_FirstCloserOn, <<>>)

\* Line l lies within an examples section, the lines of the two markers included: the
\* section is open from an earlier line or the line opens it.
C24_Within(lines, l) ==
  C24_OpenAfter(lines, l - 1) # <<>> \/ "examples" \in C6_Opened(lines[l])

\* The calls of the lines of an examples section, each with its line number; the line
\* of the closing marker counted in or left out.
RECURSIVE C24_CallsWhere(_, _, _)
C24_CallsWhere(lines, l, closingLine) ==
  IF l > Len(lines) THEN <<>>
  ELSE (IF (IF closingLine THEN C24_Within(lines, l) ELSE C24_OpenAfter(lines, l) # <<>>)
        THEN [k \in 1..Len(C24_Calls(lines[l])) |->
                [operation |-> C24_Calls(lines[l])[k], line |-> l]]
        ELSE <<>>)
       \o C24_CallsWhere(lines, l + 1, closingLine)

C24_Recorded(closingLine) ==
  \A k \in 1..Len(model.instructionInfos) :
    LET Check(info, node) ==
          (node.kind = "file" /\ node.readable) =>
            info.toolCalls = C24_CallsWhere(node.lines, 1, closingLine)
    IN  Check(model.instructionInfos[k], Lookup(fs, model.instructionInfos[k].filePath))

\* C24: the parser records the calls of a line, each with the line's number, iff the
\* line lies within an examples section, from the line of the opening marker through
\* the line of the closing marker inclusive, also when the two are one line; it
\* records no call from any other line.
C24_CallsWithinExamples == pc = "done" => C24_Recorded(TRUE)

\* What the parser does: it records the calls of the lines after whose markers an
\* examples section is open, which leaves out the line of the closing marker.
C24_CallsWhileOpen == pc = "done" => C24_Recorded(FALSE)


(***************************************************************************)
(* Packages for the guardrail references: the guardrails array of the       *)
(* manifest and what is stored below guardrails/ for the name "Safety       *)
(* Filter".  The stored manifests differ, so that the issues tell which one *)
(* was resolved.                                                            *)
(***************************************************************************)
GuardrailsFieldChoices ==
  <<Strings(<<"Safety Filter">>),
    Strings(<<"  Safety Filter ">>),
    Strings(<<"Safety_Filter">>),
    JArr(<<JStr("Safety Filter"), JStr("ghost"), JNum(3), JStr("  ")>>),
    Strings(<<"Safety Filter", "Safety Filter">>),
    JStr("Safety Filter"),
    Undefined>>

GuardrailDoc(displayName) == JsonFile(JObj(<<KV("displayName", displayName)>>))

\* What is at guardrails/Safety_Filter.json: nothing; a manifest of the referenced name,
\* plain or padded; one whose displayName is no string.
FlatUnderscoredChoices ==
  <<NoNode, GuardrailDoc(JStr("Safety Filter")), GuardrailDoc(JStr(" Safety Filter ")),
    GuardrailDoc(JNum(3))>>

InitGuardrails ==
  \E g \in 1..Len(GuardrailsFieldChoices), nested \in BOOLEAN, flat \in BOOLEAN,
     nestedUnderscored \in BOOLEAN, f \in 1..Len(FlatUnderscoredChoices), deep \in BOOLEAN :
    LET At(tree, present, relativePath, node) ==
          IF present THEN Put(tree, relativePath, node) ELSE tree
        Stored(tree) ==
          At(At(At(At(At(tree,
                         nested, "guardrails/Safety Filter/Safety Filter.json",
                         GuardrailDoc(JStr("Nested Filter"))),
                      flat, "guardrails/Safety Filter.json", MalformedFile),
                   nestedUnderscored, "guardrails/Safety_Filter/Safety_Filter.json",
                   GuardrailDoc(JStr("Safety_Filter"))),
                FlatUnderscoredChoices[f] # NoNode, "guardrails/Safety_Filter.json",
                FlatUnderscoredChoices[f]),
             deep, "guardrails/Safety_Filter/notes/history.json", GuardrailDoc(JStr("notes")))
    IN  Fresh(Stored(Put(BaseFixture, "app.yaml",
                         YamlFile(AppManifest(JStr("voice_banking_agent"),
                                              JStr("global_instruction.txt"),
                                              GuardrailsFieldChoices[g])))))

SpecGuardrails == InitGuardrails /\ [][validatePackageRoot]_vars

\* The references of the manifest: the non-blank strings of its guardrails array, in
\* the order of the array.
C25_References ==
  LET Of(guardrails) ==
        IF guardrails.t # "arr" THEN <<>>
        ELSE SelectSeq(guardrails.a, LAMBDA v : v.t = "str" /\ trim(v.s) # "")
  IN  [k \in 1..Len(Of(Get(C14_YamlDocument, "guardrails"))) |->
         Of(Get(C14_YamlDocument, "guardrails"))[k].s]

\* The name with every run of white space replaced by one '_'.
C25_Underscored(name) ==
  CASE name = "Safety Filter" -> "Safety_Filter"
    [] name = "  Safety Filter " -> "_Safety_Filter_"
    [] OTHER -> name

\* The places where a guardrail of the name is looked for, in order.
C25_Candidates(name) ==
  LET Places(c) == <<rootPath \o "/guardrails/" \o c \o "/" \o c \o ".json",
                     rootPath \o "/guardrails/" \o c \o ".json">>
  IN  Places(name) \o Places(C25_Underscored(name))

\* The first of them that exists, "" when none does.
C25_Resolved(name) ==
  LET First(paths, found) ==
        IF found = {} THEN "" ELSE paths[CHOOSE i \in found : \A j \in found : i <= j]
      Among(paths) ==
        First(paths, {i \in 1..Len(paths) : Lookup(fs, paths[i]).kind # "none"})
  IN  Among(C25_Candidates(name))

C25_On(file, code) == {i \in 1..Len(issues) : issues[i].code = code /\ issues[i].file = file}

\* The references that resolve to the file and meet the condition on its content.
C25_ResolvingTo(file, Meets(_, _)) ==
  {k \in 1..Len(C25_References) :
     /\ C25_Resolved(C25_References[k]) = file
     /\ Meets(C25_References[k], Lookup(fs, file).json)}

C25_Stored ==
  UNION {Range(C25_Candidates(C25_References[k])) : k \in 1..Len(C25_References)}

\* C25: each non-blank string of the guardrails array is looked for as the literal
\* name and then as the name with '_' for its runs of white space, each first at
\* guardrails/<c>/<c>.json and then at guardrails/<c>.json, and the first place that
\* exists is used: its issues are on that file.  CES_GUARDRAIL_REFERENCE_MISSING
\* (error, on the manifest) is emitted for a reference iff none of the places exists;
\* CES_GUARDRAIL_DISPLAYNAME_MISMATCH (warning) iff the file used can be parsed and its
\* displayName is a string that differs, trimmed, from the trimmed reference;
\* CES_GUARDRAIL_JSON_INVALID (error) iff the file used cannot be parsed.  No
\* guardrails/<name>/<name>.json gets CES_GUARDRAIL_NESTING_DEPTH_EXCEEDED.
C25_GuardrailResolution ==
  pc = "done" =>
    /\ \A name \in Range(C25_References) :
         LET Missing == {i \in C25_On(rootPath \o "/app.yaml",
                                      "CES_GUARDRAIL_REFERENCE_MISSING") :
                           includes(issues[i].message, "'" \o name \o "'")}
         IN  /\ Cardinality(Missing)
                  = IF C25_Resolved(name) # "" THEN 0
                    ELSE Cardinality({k \in 1..Len(C25_References) : C25_References[k] = name})
             /\ \A i \in Missing : issues[i].severity = "error"
    /\ \A file \in C25_Stored :
         /\ Cardinality(C25_On(file, "CES_GUARDRAIL_JSON_INVALID"))
              = Cardinality(C25_ResolvingTo(file, LAMBDA name, json : ~json.ok))
         /\ Cardinality(C25_On(file, "CES_GUARDRAIL_DISPLAYNAME_MISMATCH"))
              = Cardinality(C25_ResolvingTo(file,
                              LAMBDA name, json :
                                /\ json.ok
                                /\ json.value.t = "obj"
                                /\ Get(json.value, "displayName").t = "str"
                                /\ trim(Get(json.value, "displayName").s) # trim(name)))
         /\ \A i \in C25_On(file, "CES_GUARDRAIL_DISPLAYNAME_MISMATCH") :
              issues[i].severity = "warning"
    /\ \A i \in 1..Len(issues) :
         issues[i].code \in {"CES_GUARDRAIL_JSON_INVALID", "CES_GUARDRAIL_DISPLAYNAME_MISMATCH"}
           => issues[i].file \in C25_Stored
    /\ \A i \in 1..Len(issues) :
         issues[i].code = "CES_GUARDRAIL_NESTING_DEPTH_EXCEEDED"
           => \A c \in {"Safety Filter", "Safety_Filter"} :
                issues[i].file # rootPath \o "/guardrails/" \o c \o "/" \o c \o ".json"

\* The reference "Safety Filter" with nothing stored under the literal name and both
\* places of the underscored name taken: the nested one is used, and a file deeper
\* below guardrails/ gets the nesting warning while the nested manifest does not.
C25_Witness ==
  /\ pc = "done"
  /\ C25_References = <<"Safety Filter">>
  /\ C25_Resolved("Safety Filter") = rootPath \o "/guardrails/Safety_Filter/Safety_Filter.json"
  /\ Lookup(fs, rootPath \o "/guardrails/Safety_Filter.json").kind = "file"
  /\ C25_On(rootPath \o "/guardrails/Safety_Filter/Safety_Filter.json",
            "CES_GUARDRAIL_DISPLAYNAME_MISMATCH") # {}
  /\ \E i \in 1..Len(issues) : issues[i].code = "CES_GUARDRAIL_NESTING_DEPTH_EXCEEDED"


(***************************************************************************)
(* The pass in its two calls, buildPackageModel and then runRules, with    *)
(* the edits another process makes to the package between them.  The rules *)
(* are run on the model of the first call and on the tree as it is at the  *)
(* second.                                                                 *)
(***************************************************************************)
GuardrailPackageChoices ==
  <<Strings(<<"Safety Filter">>), Strings(<<"Safety_Filter">>),
    Strings(<<"Safety Filter", "ghost">>), JArr(<<>>)>>

StoredGuardrailPath == "guardrails/Safety_Filter/Safety_Filter.json"

InitRuleRuns ==
  \E g \in 1..Len(GuardrailPackageChoices), displayName \in {"Safety Filter", "Safety_Filter"} :
    Fresh(Put(Put(BaseFixture, "app.yaml",
                  YamlFile(AppManifest(JStr("voice_banking_agent"),
                                       JStr("global_instruction.txt"),
                                       GuardrailPackageChoices[g]))),
              StoredGuardrailPath, GuardrailDoc(JStr(displayName))))

\* const model = buildPackageModel(rootPath), or the exception it throws.
BuildModel ==
  /\ pc = "pending"
  /\ IF BuildException(fs, rootPath) # NoException
     THEN EndPass("failed", NotBuilt, <<>>, <<RuntimeErrorIssue(BuildException(fs, rootPath))>>)
     ELSE /\ pc' = "built"
          /\ model' = buildPackageModel(fs, rootPath)
          /\ UNCHANGED <<appended, issues, passes, firstFs, firstModel, firstIssues>>
  /\ UNCHANGED <<fs, result, orchestrator>>

\* const issues = runRules(model); this.packageIssues.set(rootPath, issues)
RunRules ==
  /\ pc = "built"
  /\ EndPass("done", model, PushedIssues(model, fs), SortIssues(PushedIssues(model, fs)))
  /\ UNCHANGED <<fs, result, orchestrator>>

\* An edit of the tree after buildPackageModel returned and before the rules run.
EditAfterBuild(tree) ==
  /\ pc = "built"
  /\ fs # tree
  /\ fs' = tree
  /\ UNCHANGED <<model, appended, issues, pc, passes, firstFs, firstModel, firstIssues, result,
                 orchestrator>>

\* The stored guardrail is renamed in its displayName.
RewriteGuardrail ==
  /\ existsSync(fs, pathJoin(rootPath, StoredGuardrailPath))
  /\ \E displayName \in {"Safety Filter", "Safety_Filter"} :
       EditAfterBuild(Put(fs, StoredGuardrailPath, GuardrailDoc(JStr(displayName))))

\* The stored guardrail is deleted.
DeleteGuardrail ==
  /\ existsSync(fs, pathJoin(rootPath, StoredGuardrailPath))
  /\ EditAfterBuild(Remove(fs, StoredGuardrailPath))

\* The manifest of the root agent is deleted.
DeleteRootAgentManifest ==
  /\ existsSync(fs, pathJoin(rootPath, RootAgentManifestPath))
  /\ EditAfterBuild(Remove(fs, RootAgentManifestPath))

NextRuleRuns ==
  \/ BuildModel
  \/ RunRules
  \/ Revalidate
  \/ RewriteGuardrail
  \/ DeleteGuardrail
  \/ DeleteRootAgentManifest

SpecRuleRuns == InitRuleRuns /\ [][NextRuleRuns]_vars

\* C26: runRules is a function of the model alone: a rule run on a model equal to the
\* model of the first pass stores the issues of the first pass, whatever was created
\* or deleted in the tree after the model was built.
C26_RulesReadOnlyTheModel ==
  pc = "done" /\ passes >= 2 /\ model = firstModel => issues = firstIssues

\* The same models and the same tree at the rule run give the same issues.
C26_RulesReadModelAndTree ==
  pc = "done" /\ passes >= 2 /\ model = firstModel /\ fs = firstFs => issues = firstIssues


(***************************************************************************)
(* The orchestrator with its debounce timers, the published diagnostics    *)
(* and the onDidValidate event.  A timer of the runtime is armed from      *)
(* setTimeout until it fires or is cleared; it is marked stale when, after *)
(* the call that armed it, scheduleValidationForRoot was called again for  *)
(* its root or clearDiagnostics was called.                                *)
(***************************************************************************)
\* The accepted package, one with an issue, and a folder that holds no manifest.
DebouncePackages == <<Defects[1], Defects[3], Defects[28]>>

\* What validatePackageRoot stores for each of the packages at each root.
StoredIssues ==
  [r \in Range(WorkspaceRoots) |->
     [p \in 1..Len(DebouncePackages) |-> ValidateRoot(r, DebouncePackages[p]).stored]]

PackageAt(tree) == CHOOSE p \in 1..Len(DebouncePackages) : DebouncePackages[p] = tree

NoRoot == ""

\* findPackageRootForPath for a file of the folder: the folder when it holds a
\* manifest; no folder above the workspace folders holds one.
findPackageRootForPath(trees, folder) ==
  IF \/ existsSync(trees[folder], pathJoin(rootPath, "app.yaml"))
     \/ existsSync(trees[folder], pathJoin(rootPath, "app.json"))
  THEN folder ELSE NoRoot

Idle ==
  [kind |-> "none", root |-> NoRoot, stale |-> FALSE, before |-> <<>>,
   collectionBefore |-> <<>>, timersBefore |-> {}, events |-> <<>>]

\* The call that begins on the orchestrator.
Begin(o, kind, root) ==
  [o EXCEPT !.call = [kind |-> kind, root |-> root, stale |-> FALSE,
                      before |-> o.packageIssues, collectionBefore |-> o.collection,
                      timersBefore |-> o.timers, events |-> <<>>]]

\* this.validatePackageRoot(rootPath)
StoreValidated(o, root) ==
  [o EXCEPT !.packageIssues =
              SetIssues(o.packageIssues, root, StoredIssues[root][PackageAt(o.trees[root])])]

RECURSIVE StoreValidatedAll(_, _)
StoreValidatedAll(o, roots) ==
  IF roots = <<>> THEN o ELSE StoreValidatedAll(StoreValidated(o, Head(roots)), Tail(roots))

\* groupIssuesByFile over the combined issues of the stored roots.
groupIssuesByFile(stored) ==
  LET Combined(all) ==
        [file \in {all[i].file : i \in 1..Len(all)} |->
           SelectSeq(all, LAMBDA issue : issue.file = file)]
  IN  Combined(ForEach(SelectSeq(WorkspaceRoots, LAMBDA r : r \in DOMAIN stored),
                       LAMBDA r : stored[r]))

\* this.collection.clear(); this.collection.set(file, diagnostics) for each file
applyDiagnostics(o) == [o EXCEPT !.collection = groupIssuesByFile(o.packageIssues)]

\* this._onDidValidate.fire(this.knownRoots): the payload, and what a listener finds
\* stored and published when it is called.
FireOnDidValidate(o) ==
  [o EXCEPT !.call.events =
              Append(@, [roots |-> o.knownRoots, packageIssues |-> o.packageIssues,
                         collection |-> o.collection])]

\* The timer body with the event fired before the diagnostics are applied.
NotifyBeforeApply(o, root) ==
  [applyDiagnostics(FireOnDidValidate(StoreValidated(o, root)))
     EXCEPT !.debounceTimers = @ \ {root}]

\* The body of the timer armed by scheduleValidationForRoot.
DebouncedValidation(o, root) ==
  [FireOnDidValidate(applyDiagnostics(StoreValidated(o, root)))
     EXCEPT !.debounceTimers = @ \ {root}]

\* The armed timers of other calls become stale.
Superseded(timers, root) ==
  {[root |-> t.root, stale |-> t.stale \/ t.root = root] : t \in timers}

\* scheduleValidationForRoot without clearTimeout on the timer of the entry.
ArmWithoutCancel(o, root) ==
  [o EXCEPT !.timers = Superseded(@, root) \cup {[root |-> root, stale |-> FALSE]},
            !.debounceTimers = @ \cup {root}]

\* scheduleValidationForRoot: the timer of the root's entry is cleared, a new one is
\* armed and entered.
scheduleValidationForRoot(o, root) ==
  LET Cleared == IF root \in o.debounceTimers
                 THEN o.timers \ {[root |-> root, stale |-> FALSE]}
                 ELSE o.timers
  IN  [o EXCEPT !.timers = Superseded(Cleared, root) \cup {[root |-> root, stale |-> FALSE]},
                !.debounceTimers = @ \cup {root}]

\* validateAllPackages with the event.
ValidateAllPass ==
  LET Pruned(o, roots) ==
        [o EXCEPT !.packageIssues = [r \in DOMAIN @ \cap Range(roots) |-> @[r]]]
      Run(o, roots) ==
        FireOnDidValidate(applyDiagnostics(Pruned(
          StoreValidatedAll([o EXCEPT !.knownRoots = roots,
                                      !.lastScan = [done |-> TRUE, roots |-> roots]],
                            roots),
          roots)))
  IN  /\ orchestrator' = Run(Begin(orchestrator, "all", NoRoot),
                             findPackageRoots(orchestrator.trees))
      /\ UNCHANGED <<fs, model, appended, issues, pc, passes, firstFs, firstModel,
                     firstIssues, result>>

\* validatePackageForUri with the event, for a file of one folder.
ValidateUriPass ==
  \E folder \in Range(WorkspaceRoots) :
    LET Run(root) ==
          IF root = NoRoot THEN Begin(orchestrator, "uri-none", folder)
          ELSE FireOnDidValidate(applyDiagnostics(
                 StoreValidated(Begin(orchestrator, "uri", root), root)))
    IN  /\ orchestrator' = Run(findPackageRootForPath(orchestrator.trees, folder))
        /\ UNCHANGED <<fs, model, appended, issues, pc, passes, firstFs, firstModel,
                       firstIssues, result>>

\* scheduleValidationForUri for a relevant file of one folder.
scheduleValidationForUri ==
  \E folder \in Range(WorkspaceRoots) :
    LET Run(root) ==
          IF root = NoRoot THEN Begin(orchestrator, "schedule-none", folder)
          ELSE scheduleValidationForRoot(Begin(orchestrator, "schedule", root), root)
    IN  /\ orchestrator' = Run(findPackageRootForPath(orchestrator.trees, folder))
        /\ UNCHANGED <<fs, model, appended, issues, pc, passes, firstFs, firstModel,
                       firstIssues, result>>

\* The delay of an armed timer has elapsed.
DebounceTimerFires ==
  \E timer \in orchestrator.timers :
    LET Run(o) ==
          [DebouncedValidation([o EXCEPT !.timers = @ \ {timer}], timer.root)
             EXCEPT !.call.stale = timer.stale]
    IN  /\ orchestrator' = Run(Begin(orchestrator, "timer", timer.root))
        /\ UNCHANGED <<fs, model, appended, issues, pc, passes, firstFs, firstModel,
                       firstIssues, result>>

\* clearDiagnostics: the timers of the entries are cleared, the maps and the
\* collection are emptied.
clearDiagnostics ==
  LET Run(o) ==
        [o EXCEPT !.timers =
                    {[root |-> t.root, stale |-> TRUE] :
                       t \in @ \ {[root |-> r, stale |-> FALSE] : r \in o.debounceTimers}},
                  !.debounceTimers = {},
                  !.packageIssues = <<>>,
                  !.collection = <<>>]
  IN  /\ orchestrator' = Run(Begin(orchestrator, "clear", NoRoot))
      /\ UNCHANGED <<fs, model, appended, issues, pc, passes, firstFs, firstModel,
                     firstIssues, result>>

\* The user changes the package of one folder.
EditPackage ==
  \E r \in Range(WorkspaceRoots), p \in 1..Len(DebouncePackages) :
    /\ orchestrator.trees[r] # DebouncePackages[p]
    /\ orchestrator' = [orchestrator EXCEPT !.trees[r] = DebouncePackages[p], !.call = Idle]
    /\ UNCHANGED <<fs, model, appended, issues, pc, passes, firstFs, firstModel,
                   firstIssues, result>>

InitDebounce ==
  \E a, b \in 1..Len(DebouncePackages) :
    /\ fs = BaseFixture
    /\ model = NotBuilt
    /\ appended = <<>>
    /\ issues = <<>>
    /\ pc = "pending"
    /\ passes = 0
    /\ firstFs = BaseFixture
    /\ firstModel = NotBuilt
    /\ firstIssues = <<>>
    /\ result = NoResult
    /\ orchestrator =
         [trees |-> [r \in Range(WorkspaceRoots) |->
                       IF r = WorkspaceRoots[1] THEN DebouncePackages[a]
                       ELSE DebouncePackages[b]],
          packageIssues |-> <<>>,
          knownRoots |-> <<>>,
          lastScan |-> [done |-> FALSE, roots |-> <<>>],
          debounceTimers |-> {},
          timers |-> {},
          collection |-> <<>>,
          call |-> Idle]

NextDebounce ==
  \/ ValidateAllPass
  \/ ValidateUriPass
  \/ scheduleValidationForUri
  \/ DebounceTimerFires
  \/ clearDiagnostics
  \/ EditPackage

SpecDebounce == InitDebounce /\ [][NextDebounce]_vars

\* The roots the last call validated.
C27_Validated ==
  IF orchestrator.call.kind = "all" THEN Range(findPackageRoots(orchestrator.trees))
  ELSE {orchestrator.call.root}

\* C27: every validation pass (a validateAllPackages call, a validatePackageForUri
\* call for a path in a package, a debounce timer that fires) fires onDidValidate
\* exactly once; when it is fired the issues of the validated roots are stored and the
\* diagnostics are those of the stored issues, and nothing of either changes after
\* it; the event carries the roots of the most recent discovery scan (none before
\* the first scan).  validatePackageForUri for a path in no package stores nothing,
\* changes no diagnostics and fires no event.
C27_OneEventPerPass ==
  /\ orchestrator.call.kind \in {"all", "uri", "timer"} =>
       /\ Len(orchestrator.call.events) = 1
       /\ orchestrator.call.events[1].roots
            = (IF orchestrator.lastScan.done THEN orchestrator.lastScan.roots ELSE <<>>)
       /\ orchestrator.call.events[1].packageIssues = orchestrator.packageIssues
       /\ orchestrator.call.events[1].collection = orchestrator.collection
       /\ \A root \in C27_Validated :
            /\ root \in DOMAIN orchestrator.call.events[1].packageIssues
            /\ orchestrator.call.events[1].packageIssues[root]
                 = StoredIssues[root][PackageAt(orchestrator.trees[root])]
       /\ \A file \in DOMAIN orchestrator.call.events[1].collection :
            \E root \in DOMAIN orchestrator.packageIssues :
              orchestrator.call.events[1].collection[file]
                = SelectSeq(orchestrator.packageIssues[root], LAMBDA issue : issue.file = file)
       /\ \A root \in DOMAIN orchestrator.packageIssues :
            \A i \in 1..Len(orchestrator.packageIssues[root]) :
              orchestrator.packageIssues[root][i].file
                \in DOMAIN orchestrator.call.events[1].collection
  /\ orchestrator.call.kind = "uri-none" =>
       /\ orchestrator.call.events = <<>>
       /\ orchestrator.packageIssues = orchestrator.call.before
       /\ orchestrator.collection = orchestrator.call.collectionBefore

\* A timer fires for a root whose package got an issue since the last pass: the one
\* event comes with the new issue stored and published, and carries the two roots of
\* the scan.
C27_Witness ==
  /\ orchestrator.call.kind = "timer"
  /\ orchestrator.call.root = WorkspaceRoots[1]
  /\ WorkspaceRoots[1] \in DOMAIN orchestrator.call.before
  /\ orchestrator.call.before[WorkspaceRoots[1]] = <<>>
  /\ Len(orchestrator.call.events) = 1
  /\ orchestrator.call.events[1].roots = WorkspaceRoots
  /\ orchestrator.call.events[1].packageIssues[WorkspaceRoots[1]] # <<>>
  /\ orchestrator.call.events[1].collection # orchestrator.call.collectionBefore

\* validatePackageForUri for a file of a folder without a manifest, while issues of
\* the other folder are stored and published.
C27_WitnessNoRoot ==
  /\ orchestrator.call.kind = "uri-none"
  /\ orchestrator.call.before # <<>>
  /\ orchestrator.call.collectionBefore # <<>>


\* The armed timers of a root.
C28_Armed(root) == {t \in orchestrator.timers : t.root = root}

\* C28: for each root at most one debounce timer is armed, and the root has an entry
\* in debounceTimers exactly while one is; no armed timer is one that a later
\* scheduleValidationForRoot call for its root or a clearDiagnostics call came
\* after, so of several calls for a root in a row only the timer of the last one is
\* left to fire, and nothing scheduled before clearDiagnostics is; a
\* scheduleValidationForRoot call leaves exactly one timer for its root and the
\* timers of the other roots as they were; the pass a timer runs is that of the last
\* call, and it removes the entry of its root; after clearDiagnostics no timer is
\* armed.
C28_OneTimerPerRoot ==
  /\ \A root \in Range(WorkspaceRoots) :
       /\ Cardinality(C28_Armed(root)) <= 1
       /\ root \in orchestrator.debounceTimers <=> C28_Armed(root) # {}
  /\ \A t \in orchestrator.timers : ~t.stale
  /\ orchestrator.call.kind = "schedule" =>
       /\ C28_Armed(orchestrator.call.root) = {[root |-> orchestrator.call.root, stale |-> FALSE]}
       /\ orchestrator.timers \ C28_Armed(orchestrator.call.root)
            = {t \in orchestrator.call.timersBefore : t.root # orchestrator.call.root}
  /\ orchestrator.call.kind = "timer" =>
       /\ ~orchestrator.call.stale
       /\ orchestrator.call.root \notin orchestrator.debounceTimers
       /\ C28_Armed(orchestrator.call.root) = {}
       /\ orchestrator.timers
            = {t \in orchestrator.call.timersBefore : t.root # orchestrator.call.root}
  /\ orchestrator.call.kind = "clear" =>
       /\ orchestrator.timers = {}
       /\ orchestrator.debounceTimers = {}

\* scheduleValidationForRoot is called for a root whose timer is armed, while a
\* timer of the other root is armed too: one timer each is left.
C28_Witness ==
  /\ orchestrator.call.kind = "schedule"
  /\ orchestrator.call.root = WorkspaceRoots[1]
  /\ orchestrator.call.timersBefore
       = {[root |-> r, stale |-> FALSE] : r \in Range(WorkspaceRoots)}
  /\ orchestrator.timers = orchestrator.call.timersBefore

\* clearDiagnostics is called while timers are armed.
C28_WitnessCleared ==
  /\ orchestrator.call.kind = "clear"
  /\ orchestrator.call.timersBefore # {}
  /\ orchestrator.timers = {}

\* C29: once a validateAllPackages call has completed, every root with stored issues
\* is one of the roots its scan (the most recent one) discovered.
C29_StoredRootsAreDiscovered ==
  orchestrator.lastScan.done =>
    DOMAIN orchestrator.packageIssues \subseteq Range(orchestrator.lastScan.roots)

\* ... and in particular a root that validateAllPackages pruned is not stored again by
\* a timer that was armed when it was pruned.
C29_PrunedRootStaysPruned ==
  /\ orchestrator.lastScan.done
  /\ orchestrator.call.kind = "timer"
  /\ orchestrator.call.root \notin Range(orchestrator.lastScan.roots)
  => orchestrator.call.root \notin DOMAIN orchestrator.packageIssues


(***************************************************************************)
(* Packages for the root of the documents: what the manifest (app.yaml or   *)
(* app.json), environment.json and the schema of the toolset hold at their  *)
(* top level.                                                               *)
(***************************************************************************)
\* A list, a string, null, a number, an empty file (to YAML null, to JSON no
\* document), a malformed file, an unreadable file; the record of the place comes
\* first.
RootFileChoices(record) ==
  <<JsonFile(record),
    JsonFile(JArr(<<JStr("a")>>)),
    JsonFile(JStr("openapi")),
    JsonFile(JNull),
    JsonFile(JNum(3)),
    File(<<"">>, ParseFail("Unexpected end of JSON input"), ParseOk(JNull)),
    MalformedFile,
    UnreadableFile>>

SchemaPath == "toolsets/location/open_api_toolset/open_api_schema.yaml"

InitRoots ==
  \E name \in {"app.yaml", "app.json"}, a, e, s \in 1..Len(RootFileChoices(BaseApp)) :
    Fresh(Put(Put(Put(Remove(BaseFixture, "app.yaml"),
                      name, RootFileChoices(BaseApp)[a]),
                  "environment.json",
                  RootFileChoices(EnvironmentDoc(JStr("https://api.example.com")))[e]),
              SchemaPath, RootFileChoices(SchemaDoc)[s]))

SpecRoots == InitRoots /\ [][validatePackageRoot]_vars

\* The file can be read and parsed, and its top-level value is no record.
C30_NotARecord(relativePath) ==
  LET Parsed(document) == document.ok /\ document.value.t # "obj"
      Of(node) ==
        /\ node.kind = "file"
        /\ node.readable
        /\ Parsed(IF endsWith(relativePath, ".json") THEN node.json ELSE node.yaml)
  IN  Of(Lookup(fs, rootPath \o "/" \o relativePath))

C30_Reported(relativePath, code) ==
  Cardinality({i \in 1..Len(issues) :
                 /\ issues[i].code = code
                 /\ issues[i].file = rootPath \o "/" \o relativePath
                 /\ issues[i].severity = "error"
                 /\ includes(issues[i].message, "root must be an object")}) = 1

C30_Manifest ==
  IF Lookup(fs, rootPath \o "/app.yaml").kind # "none" THEN "app.yaml" ELSE "app.json"

\* C30: a manifest, an environment.json or a schema of a toolset whose top-level
\* value is not a record is reported with the parse-error code of its rule
\* (CES_MANIFEST_PARSE_ERROR, CES_ENVIRONMENT_PARSE_ERROR, CES_OPENAPI_PARSE_ERROR),
\* and no pass emits CES_MANIFEST_INVALID_ROOT, CES_ENVIRONMENT_INVALID_ROOT or
\* CES_OPENAPI_INVALID_ROOT.
C30_NoInvalidRoot ==
  pc = "done" =>
    /\ \A i \in 1..Len(issues) :
         issues[i].code \notin {"CES_MANIFEST_INVALID_ROOT", "CES_ENVIRONMENT_INVALID_ROOT",
                                "CES_OPENAPI_INVALID_ROOT"}
    /\ C30_NotARecord(C30_Manifest) => C30_Reported(C30_Manifest, "CES_MANIFEST_PARSE_ERROR")
    /\ C30_NotARecord("environment.json")
         => C30_Reported("environment.json", "CES_ENVIRONMENT_PARSE_ERROR")
    /\ C30_NotARecord(SchemaPath) => C30_Reported(SchemaPath, "CES_OPENAPI_PARSE_ERROR")

\* A list in app.json, a string in environment.json and null in the schema: the
\* three parse errors in one pass.
C30_Witness ==
  /\ pc = "done"
  /\ C30_Manifest = "app.json"
  /\ Lookup(fs, rootPath \o "/app.json").json.value = JArr(<<JStr("a")>>)
  /\ Lookup(fs, rootPath \o "/environment.json").json.value = JStr("openapi")
  /\ Lookup(fs, rootPath \o "/" \o SchemaPath).yaml.value = JNull
  /\ C30_Reported("app.json", "CES_MANIFEST_PARSE_ERROR")
  /\ C30_Reported("environment.json", "CES_ENVIRONMENT_PARSE_ERROR")
  /\ C30_Reported(SchemaPath, "CES_OPENAPI_PARSE_ERROR")
====
